---- MODULE Spec2Model ----
(***************************************************************************)
(* Model of the AI core of PyPost: the FAISS-backed retriever, the context  *)
(* assembler and the orchestrators built on them (rag_chatbot.py), and the  *)
(* single-email tasks of EmailAI (email_ai.py); and of what the pages of    *)
(* the application do with them: the Gmail manager (gmail_manager.py), the  *)
(* run of the application (app.py) and the analytics and chat pages         *)
(* (ui_components.py).                                                      *)
(*                                                                          *)
(* Text is modelled as a sequence of lines; a line is a record whose "kind" *)
(* names the literal part of the line and whose other fields carry the      *)
(* interpolated values.  An email is a Python dict: a record whose DOMAIN   *)
(* is the set of keys that are present.                                     *)
(***************************************************************************)
EXTENDS Integers, Sequences, FiniteSets, TLC

\* The field names of the records of the model, numbered in the order in which
\* every record below lists its fields.
FieldOrder ==
    [ kind |-> 1, number |-> 2, id |-> 3, subject |-> 4, sender |-> 5,
      date |-> 6, body |-> 7, thread_id |-> 8, threadId |-> 9,
      headers |-> 10, Subject |-> 11, From |-> 12, Date |-> 13,
      value |-> 14, error |-> 15, ok |-> 16, item |-> 17, st |-> 18,
      builds |-> 19, call |-> 20, core |-> 21, name |-> 22, query |-> 23,
      maxResults |-> 24, k |-> 25, status |-> 26, arg |-> 27, again |-> 28,
      outcome |-> 29, raised |-> 30, exc |-> 31, list |-> 32, text |-> 33,
      msg |-> 34, labels |-> 35, knn |-> 36, encCalls |-> 37,
      genCalls |-> 38, prompts |-> 39, replies |-> 40, encFailed |-> 41,
      replaced |-> 42, template |-> 43, context |-> 44, question |-> 45,
      isNone |-> 46, dim |-> 47, vecs |-> 48, rows |-> 49, emails |-> 50,
      faiss_index |-> 51, email_vectors |-> 52, service |-> 53,
      creds |-> 54, mgr |-> 55, requests |-> 56, box |-> 57, api |-> 58,
      messages |-> 59, raw |-> 60, gmail_authenticated |-> 61,
      selected_emails_for_chat |-> 62, chat_history |-> 63,
      selected_ai_provider |-> 64, selected_model |-> 65,
      temperature_setting |-> 66, max_tokens_setting |-> 67, keys |-> 68,
      api_keys |-> 69, calls |-> 70, tabs |-> 71, categories |-> 72,
      senders |-> 73, backend |-> 74, model |-> 75, temperature |-> 76,
      max_tokens |-> 77, provider |-> 78, api_key |-> 79, session |-> 80 ]

VARIABLES emails, faiss_index, email_vectors, lastBuild, call,
          session_state, gmail_manager, ui

vars == <<emails, faiss_index, email_vectors, lastBuild, call,
          session_state, gmail_manager, ui>>

(***************************************************************************)
(* Bounds of the model.                                                     *)
(***************************************************************************)
MaxEmails == 2
MaxK == 3

(***************************************************************************)
(* Program constants.                                                       *)
(***************************************************************************)
AnswerTopK == 5
ContentTopK == 10

(***************************************************************************)
(* Inputs: the emails a caller can pass, and the queries.                   *)
(***************************************************************************)
Email1 == [id |-> "1", subject |-> "Meeting tomorrow", sender |-> "a@x.com",
           date |-> "Mon", body |-> <<"meet", "at", "3pm">>, thread_id |-> "t1"]
Email2 == [id |-> "2", subject |-> "Invoice", sender |-> "b@x.com",
           date |-> "Tue", body |-> <<"please", "pay">>, thread_id |-> "t2"]
Email3 == [id |-> "3", sender |-> "c@x.com", date |-> "Wed",
           body |-> <<"lunch">>, thread_id |-> "t3"]

EmailPool == {Email1, Email2, Email3}

Queries == {"when is the meeting", "lunch"}

RECURSIVE SeqsUpTo(_, _)
SeqsUpTo(S, n) ==
    IF n = 0 THEN {<<>>}
    ELSE LET shorter == SeqsUpTo(S, n - 1)
         IN  shorter \cup {Append(s, x) : s \in {t \in shorter : Len(t) = n - 1}, x \in S}

\* the caller's email lists: distinct emails, in any order
Injective(s) == \A i, j \in 1..Len(s) : s[i] = s[j] => i = j

EmailLists == {s \in SeqsUpTo(EmailPool, MaxEmails) : Injective(s)}

(***************************************************************************)
(* Python helpers.                                                          *)
(***************************************************************************)
\* dict.get(key, default)
Get(e, key, default) == IF key \in DOMAIN e THEN e[key] ELSE default

Min(a, b) == IF a < b THEN a ELSE b

\* seq[:n]
Take(s, n) == SubSeq(s, 1, Min(n, Len(s)))

\* Python list indexing with a 0-based, possibly negative, index.  The result
\* is [ok, val]; ok is FALSE where Python raises IndexError.
PyIndex(s, i) ==
    IF i >= 0 /\ i < Len(s) THEN [ok |-> TRUE, item |-> s[i + 1]]
    ELSE IF i < 0 /\ -i <= Len(s) THEN [ok |-> TRUE, item |-> s[Len(s) + i + 1]]
    ELSE [ok |-> FALSE, item |-> Email1]

(***************************************************************************)
(* The sentence encoder: a fixed deterministic map from a text to a vector. *)
(* Distinct texts may share a vector or lie at equal distance of a query.   *)
(***************************************************************************)
\* f"Subject: {e.get('subject','')}\nBody: {e.get('body','')}"
IndexText(e) == [kind |-> "index_text", subject |-> Get(e, "subject", ""),
                 body |-> Get(e, "body", <<>>)]

QueryText(q) == [kind |-> "query_text", text |-> q]

Embed(t) ==
    IF t.kind = "query_text"
    THEN (IF t.text = "when is the meeting" THEN <<1, 0>> ELSE <<1, 2>>)
    ELSE IF t.subject = "Meeting tomorrow" THEN <<0, 0>>
    ELSE IF t.subject = "Invoice" THEN <<2, 0>>
    ELSE IF t.subject = "Standup notes" THEN <<3, 1>>
    ELSE IF t.subject = "Offer letter" THEN <<0, 3>>
    ELSE <<1, 2>>

\* squared Euclidean distance (IndexFlatL2)
L2Sqr(u, v) == (u[1] - v[1]) * (u[1] - v[1]) + (u[2] - v[2]) * (u[2] - v[2])

(***************************************************************************)
(* faiss.IndexFlatL2.  The index is its dimension and the added vectors in  *)
(* insertion order; labels are 0-based positions.  search scans the stored  *)
(* vectors in order and keeps the k best, a later vector replacing a kept   *)
(* one only when strictly nearer; missing neighbours are labelled -1.       *)
(***************************************************************************)
NoneIndex == [isNone |-> TRUE, dim |-> 0, vecs |-> <<>>]

IndexFlatL2(d) == [isNone |-> FALSE, dim |-> d, vecs |-> <<>>]

IndexAdd(idx, vs) == [idx EXCEPT !.vecs = idx.vecs \o vs]

\* insert label p in the list of labels best, sorted by distance to qv, after
\* every label that is at least as near
RECURSIVE InsertSorted(_, _, _, _)
InsertSorted(best, p, idx, qv) ==
    IF best = <<>> THEN <<p>>
    ELSE IF L2Sqr(idx.vecs[p + 1], qv) < L2Sqr(idx.vecs[Head(best) + 1], qv)
         THEN <<p>> \o best
         ELSE <<Head(best)>> \o InsertSorted(Tail(best), p, idx, qv)

RECURSIVE ScanBest(_, _, _, _)
ScanBest(idx, qv, k, n) ==
    IF n = 0 THEN <<>>
    ELSE Take(InsertSorted(ScanBest(idx, qv, k, n - 1), n - 1, idx, qv), k)

Pad(s, k) == s \o [i \in 1..(k - Len(s)) |-> -1]

\* the row I[0] of the labels returned by index.search(query_vec, k)
IndexSearch(idx, qv, k) == Pad(ScanBest(idx, qv, k, Len(idx.vecs)), k)

(***************************************************************************)
(* EmailRAGChatbot: the retriever.  A retriever state is the three fields   *)
(* emails, faiss_index, email_vectors of the instance.                      *)
(***************************************************************************)
NoneVectors == [isNone |-> TRUE, rows |-> <<>>]

\* __init__
InitRetriever == [emails |-> <<>>, faiss_index |-> NoneIndex, email_vectors |-> NoneVectors]

\* embedder.encode(texts) of build_faiss_index, one vector per text, in order
EncodeBatch(es) == [i \in 1..Len(es) |-> Embed(IndexText(es[i]))]

\* build_faiss_index without line 25: the emails of the call are not retained
BuildFaissIndex_KeepsOldEmails(st, es, encOk) ==
    IF es = <<>>
    THEN [st |-> [emails |-> st.emails, faiss_index |-> NoneIndex,
                  email_vectors |-> NoneVectors],
          raised |-> FALSE, exc |-> "", encCalls |-> 0]
    ELSE IF ~encOk
    THEN [st |-> st, raised |-> TRUE, exc |-> "EncoderError", encCalls |-> 1]
    ELSE LET vectors == EncodeBatch(es)
         IN  [st |-> [emails |-> st.emails,
                      faiss_index |-> IndexAdd(IndexFlatL2(Len(vectors[1])), vectors),
                      email_vectors |-> [isNone |-> FALSE, rows |-> vectors]],
              raised |-> FALSE, exc |-> "", encCalls |-> 1]

\* build_faiss_index without lines 27-28: an empty input leaves the old index
BuildFaissIndex_NoClear(st, es, encOk) ==
    IF es = <<>> \/ ~encOk
    THEN [st |-> [st EXCEPT !.emails = es],
          raised |-> es # <<>>, exc |-> IF es = <<>> THEN "" ELSE "EncoderError",
          encCalls |-> IF es = <<>> THEN 0 ELSE 1]
    ELSE LET vectors == EncodeBatch(es)
         IN  [st |-> [emails |-> es,
                      faiss_index |-> IndexAdd(IndexFlatL2(Len(vectors[1])), vectors),
                      email_vectors |-> [isNone |-> FALSE, rows |-> vectors]],
              raised |-> FALSE, exc |-> "", encCalls |-> 1]

\* build_faiss_index without line 33: the vectors are added to the index
\* already there
BuildFaissIndex_Incremental(st, es, encOk) ==
    IF es = <<>>
    THEN [st |-> [emails |-> es, faiss_index |-> NoneIndex, email_vectors |-> NoneVectors],
          raised |-> FALSE, exc |-> "", encCalls |-> 0]
    ELSE IF ~encOk
    THEN [st |-> [st EXCEPT !.emails = es],
          raised |-> TRUE, exc |-> "EncoderError", encCalls |-> 1]
    ELSE LET vectors == EncodeBatch(es)
             old == IF st.faiss_index.isNone THEN IndexFlatL2(Len(vectors[1]))
                    ELSE st.faiss_index
         IN  [st |-> [emails |-> es,
                      faiss_index |-> IndexAdd(old, vectors),
                      email_vectors |-> [isNone |-> FALSE, rows |-> vectors]],
              raised |-> FALSE, exc |-> "", encCalls |-> 1]

\* build_faiss_index(es) on the retriever state st; encOk is whether the
\* encoder call succeeds.  Gives the new retriever state, whether the call
\* raised, and the number of encoder calls made.
BuildFaissIndex(st, es, encOk) ==
    IF es = <<>>
    THEN [st |-> [emails |-> es, faiss_index |-> NoneIndex, email_vectors |-> NoneVectors],
          raised |-> FALSE, exc |-> "", encCalls |-> 0]
    ELSE IF ~encOk
    THEN [st |-> [st EXCEPT !.emails = es],
          raised |-> TRUE, exc |-> "EncoderError", encCalls |-> 1]
    ELSE LET vectors == EncodeBatch(es)
         IN  [st |-> [emails |-> es,
                      faiss_index |-> IndexAdd(IndexFlatL2(Len(vectors[1])), vectors),
                      email_vectors |-> [isNone |-> FALSE, rows |-> vectors]],
              raised |-> FALSE, exc |-> "", encCalls |-> 1]

\* [self.emails[i] for i in I[0] if i < len(self.emails)]
RECURSIVE Gather(_, _)
Gather(es, labels) ==
    IF labels = <<>> THEN [ok |-> TRUE, list |-> <<>>]
    ELSE LET i == Head(labels)
             rest == Gather(es, Tail(labels))
         IN  IF ~(i < Len(es)) THEN rest
             ELSE IF ~PyIndex(es, i).ok \/ ~rest.ok THEN [ok |-> FALSE, list |-> <<>>]
             ELSE [ok |-> TRUE, list |-> <<PyIndex(es, i).item>> \o rest.list]

\* search_emails_faiss with line 40 moved above the guard of line 38: the
\* query is encoded before the index is looked at
SearchEmailsFaiss_EncodeFirst(st, query, top_k, encOk, kChecked) ==
    LET quiet == [raised |-> FALSE, exc |-> "", list |-> <<>>, labels |-> <<>>,
                  knn |-> <<>>, encCalls |-> 1]
    IN  IF ~encOk THEN [quiet EXCEPT !.raised = TRUE, !.exc = "EncoderError"]
        ELSE IF st.faiss_index.isNone \/ st.emails = <<>> THEN quiet
        ELSE IF top_k <= 0 /\ kChecked
        THEN [quiet EXCEPT !.raised = TRUE, !.exc = "AssertionError", !.knn = <<top_k>>]
        ELSE LET labels == IndexSearch(st.faiss_index, Embed(QueryText(query)), top_k)
                 got == Gather(st.emails, labels)
             IN  IF ~got.ok
                 THEN [quiet EXCEPT !.raised = TRUE, !.exc = "IndexError",
                                    !.labels = labels, !.knn = <<top_k>>]
                 ELSE [quiet EXCEPT !.list = got.list, !.labels = labels,
                                    !.knn = <<top_k>>]

\* search_emails_faiss that answers [] when the encoder raises
SearchEmailsFaiss_QuietEncoder(st, query, top_k, encOk, kChecked) ==
    LET quiet == [raised |-> FALSE, exc |-> "", list |-> <<>>, labels |-> <<>>,
                  knn |-> <<>>, encCalls |-> 0]
    IN  IF st.faiss_index.isNone \/ st.emails = <<>> THEN quiet
        ELSE IF ~encOk THEN [quiet EXCEPT !.encCalls = 1]
        ELSE IF top_k <= 0 /\ kChecked
        THEN [quiet EXCEPT !.raised = TRUE, !.exc = "AssertionError",
                           !.knn = <<top_k>>, !.encCalls = 1]
        ELSE LET labels == IndexSearch(st.faiss_index, Embed(QueryText(query)), top_k)
                 got == Gather(st.emails, labels)
             IN  IF ~got.ok
                 THEN [quiet EXCEPT !.raised = TRUE, !.exc = "IndexError",
                                    !.labels = labels, !.knn = <<top_k>>, !.encCalls = 1]
                 ELSE [quiet EXCEPT !.list = got.list, !.labels = labels,
                                    !.knn = <<top_k>>, !.encCalls = 1]

\* search_emails_faiss(query, top_k) on the retriever state st.  encOk is
\* whether the encoder call succeeds; kChecked is whether the installed faiss
\* wrapper asserts k > 0.  knn lists the neighbour counts handed to the index.
SearchEmailsFaiss(st, query, top_k, encOk, kChecked) ==
    LET quiet == [raised |-> FALSE, exc |-> "", list |-> <<>>, labels |-> <<>>,
                  knn |-> <<>>, encCalls |-> 0]
    IN  IF st.faiss_index.isNone \/ st.emails = <<>> THEN quiet
        ELSE IF ~encOk
        THEN [quiet EXCEPT !.raised = TRUE, !.exc = "EncoderError", !.encCalls = 1]
        ELSE IF top_k <= 0 /\ kChecked
        THEN [quiet EXCEPT !.raised = TRUE, !.exc = "AssertionError",
                           !.knn = <<top_k>>, !.encCalls = 1]
        ELSE LET labels == IndexSearch(st.faiss_index, Embed(QueryText(query)), top_k)
                 got == Gather(st.emails, labels)
             IN  IF ~got.ok
                 THEN [quiet EXCEPT !.raised = TRUE, !.exc = "IndexError",
                                    !.labels = labels, !.knn = <<top_k>>, !.encCalls = 1]
                 ELSE [quiet EXCEPT !.list = got.list, !.labels = labels,
                                    !.knn = <<top_k>>, !.encCalls = 1]

(***************************************************************************)
(* The context assembler.                                                   *)
(***************************************************************************)
Literal(s) == <<[kind |-> "literal", text |-> s]>>

NoContext == Literal("No emails available for context.")

\* a context part that cuts the body to its first two words
ContextPart_Truncated(i, email) ==
    << [kind |-> "empty"],
       [kind |-> "Email", number |-> i],
       [kind |-> "- Subject: ", value |-> Get(email, "subject", "No Subject")],
       [kind |-> "- From: ", value |-> Get(email, "sender", "Unknown Sender")],
       [kind |-> "- Date: ", value |-> Get(email, "date", "Unknown Date")],
       [kind |-> "- Content: ", body |-> Take(Get(email, "body", <<"No content">>), 2)],
       [kind |-> "---"] >>

\* one element of context_parts: the f-string of lines 57-63, which opens
\* with a line break
ContextPart(i, email) ==
    << [kind |-> "empty"],
       [kind |-> "Email", number |-> i],
       [kind |-> "- Subject: ", value |-> Get(email, "subject", "No Subject")],
       [kind |-> "- From: ", value |-> Get(email, "sender", "Unknown Sender")],
       [kind |-> "- Date: ", value |-> Get(email, "date", "Unknown Date")],
       [kind |-> "- Content: ", body |-> Get(email, "body", <<"No content">>)],
       [kind |-> "---"] >>

\* "\n".join(parts): the lines of the parts, one part after the other
RECURSIVE JoinLines(_)
JoinLines(parts) ==
    IF parts = <<>> THEN <<>> ELSE Head(parts) \o JoinLines(Tail(parts))

\* create_email_context without the guard of lines 53-54
create_email_context_NoGuard(es) ==
    JoinLines([i \in 1..Len(es) |-> ContextPart(i, es[i])])

create_email_context(es) ==
    IF es = <<>> THEN NoContext
    ELSE JoinLines([i \in 1..Len(es) |-> ContextPart(i, es[i])])

(***************************************************************************)
(* Strings that the program takes apart.  Such a string is a sequence of   *)
(* pieces: a line break, a question mark, a whitespace character, or a run  *)
(* of characters that holds no line break and no question mark and that     *)
(* neither starts nor ends with whitespace.                                 *)
(***************************************************************************)
Whitespace == {" ", "\t", "\r", "\n"}

RECURSIVE LStrip(_)
LStrip(str) ==
    IF str # <<>> /\ Head(str) \in Whitespace THEN LStrip(Tail(str)) ELSE str

RECURSIVE RStrip(_)
RStrip(str) ==
    IF str # <<>> /\ str[Len(str)] \in Whitespace
    THEN RStrip(SubSeq(str, 1, Len(str) - 1))
    ELSE str

\* str.strip()
Strip(str) == RStrip(LStrip(str))

\* str.split(sep)
RECURSIVE Split(_, _)
Split(str, sep) ==
    IF \A i \in 1..Len(str) : str[i] # sep THEN <<str>>
    ELSE LET at == CHOOSE i \in 1..Len(str) :
                       str[i] = sep /\ \A j \in 1..(i - 1) : str[j] # sep
         IN  <<SubSeq(str, 1, at - 1)>> \o Split(SubSeq(str, at + 1, Len(str)), sep)

\* sep.join(strs)
RECURSIVE Join(_, _)
Join(strs, sep) ==
    IF strs = <<>> THEN <<>>
    ELSE IF Len(strs) = 1 THEN strs[1]
    ELSE strs[1] \o <<sep>> \o Join(Tail(strs), sep)

\* c in str, for a character c
Contains(str, c) == \E i \in 1..Len(str) : str[i] = c

(***************************************************************************)
(* The generation backend and _generate_response.  An outcome of the        *)
(* backend is the string it returns, or the message of the exception it     *)
(* raises.                                                                  *)
(***************************************************************************)
GenFailure == [ok |-> FALSE, text |-> <<>>, msg |-> <<"quota exceeded">>]

GenOutcomes ==
    { [ok |-> TRUE, text |-> <<"The meeting is at 3pm.">>, msg |-> <<>>],
      GenFailure }

\* _generate_response with an apology that leaves the error message out
GenerateResponse_NoMessage(g) ==
    IF g.ok THEN <<[kind |-> "generated", text |-> g.text]>>
    ELSE <<[kind |-> "apology", error |-> <<>>]>>

\* _generate_response: the backend's text, or the apology embedding its error
GenerateResponse(g) ==
    IF g.ok THEN <<[kind |-> "generated", text |-> g.text]>>
    ELSE <<[kind |-> "apology", error |-> g.msg]>>

\* f"Sorry, I couldn't generate a response at this time. Error: "
ApologyPrefix ==
    <<"Sorry, I couldn't generate a response", " ", "at this time. Error:", " ">>

\* the string that a text returned by _generate_response is
ResponseString(response) ==
    IF response[1].kind = "apology" THEN ApologyPrefix \o response[1].error
    ELSE response[1].text

NoEmailsAnswer ==
    Literal("No emails are available to answer your question. Please select some emails first.")

AnswerPrompt(context, question) ==
    [template |-> "answer_question", context |-> context, question |-> question]

(***************************************************************************)
(* The orchestrators.  Each gives the retriever state it leaves, the builds *)
(* it performed (how each ended, and on what) and the record of the call:   *)
(* its arguments, how it ended, what it returned and which collaborators it *)
(* used.  prompts are the prompts handed to the generation backend and      *)
(* replies the outcomes the backend gave, in order; encFailed is the number *)
(* of the encoder call of this call that raised, 0 when none did; replaced  *)
(* says that the call built the index on an instance that retained an       *)
(* email which is not among the emails of this build.                       *)
(***************************************************************************)
NoCall == [name |-> "init", query |-> "", k |-> 0, arg |-> <<>>,
           outcome |-> "return", exc |-> "", list |-> <<>>, text |-> <<>>,
           labels |-> <<>>, knn |-> <<>>, encCalls |-> 0, genCalls |-> 0,
           prompts |-> <<>>, replies |-> <<>>, encFailed |-> 0,
           replaced |-> FALSE]

BuildStatus(b, es) == [status |-> IF b.raised THEN "failed" ELSE "ok", arg |-> es]

Outcome(raised) == IF raised THEN "raise" ELSE "return"

\* The encoder is called at most twice in one orchestrator call (once by the
\* build, once by the search); encFail is the call that fails, 0 for none.
EncFails == 0..2

\* the result r of an operation in which the encoder call number encFail was
\* to fail: the call's record says which encoder call failed, if it was made
WithEncoder(r, encFail) ==
    [r EXCEPT !.call.encFailed = IF r.call.encCalls >= encFail THEN encFail ELSE 0]

\* _generate_response that calls the backend once more when it has raised
CallBackend_Retry(c, prompt, g) ==
    IF g.ok
    THEN [c EXCEPT !.text = GenerateResponse(g), !.genCalls = @ + 1,
                   !.prompts = Append(@, prompt), !.replies = Append(@, g)]
    ELSE [c EXCEPT !.text = GenerateResponse(g), !.genCalls = @ + 2,
                   !.prompts = @ \o <<prompt, prompt>>, !.replies = @ \o <<g, g>>]

\* self._generate_response(prompt) in a call whose record so far is c, when
\* the backend's outcome is g: one call of ai_provider.generate_response
CallBackend(c, prompt, g) ==
    [c EXCEPT !.text = GenerateResponse(g), !.genCalls = @ + 1,
              !.prompts = Append(@, prompt), !.replies = Append(@, g)]

\* answer_question past its guard, with a context made of the first emails
\* given instead of the emails retrieved
AnswerWithEmails_FirstFive(st, question, es, encFail, g) ==
    LET c0 == [NoCall EXCEPT !.name = "answer_question", !.query = question, !.arg = es]
        b == BuildFaissIndex(st, es, encFail # 1)
        k == Min(AnswerTopK, Len(es))
        s == SearchEmailsFaiss(b.st, question, k, encFail # 2, TRUE)
        context == create_email_context(Take(es, AnswerTopK))
    IN  [st |-> b.st, builds |-> <<BuildStatus(b, es)>>,
         call |-> IF b.raised
                  THEN [c0 EXCEPT !.outcome = "raise", !.exc = b.exc,
                                  !.encCalls = b.encCalls]
                  ELSE IF s.raised
                  THEN [c0 EXCEPT !.outcome = "raise", !.exc = s.exc, !.k = k,
                                  !.labels = s.labels, !.knn = s.knn,
                                  !.encCalls = b.encCalls + s.encCalls]
                  ELSE CallBackend([c0 EXCEPT !.k = k, !.list = s.list,
                                              !.labels = s.labels, !.knn = s.knn,
                                              !.encCalls = b.encCalls + s.encCalls],
                                   AnswerPrompt(context, question), g)]

\* answer_question past its guard (lines 70-89)
AnswerWithEmails(st, question, es, encFail, g) ==
    LET c0 == [NoCall EXCEPT !.name = "answer_question", !.query = question, !.arg = es]
        b == BuildFaissIndex(st, es, encFail # 1)
        k == Min(AnswerTopK, Len(es))
        s == SearchEmailsFaiss(b.st, question, k, encFail # 2, TRUE)
        context == create_email_context(s.list)
    IN  [st |-> b.st, builds |-> <<BuildStatus(b, es)>>,
         call |-> IF b.raised
                  THEN [c0 EXCEPT !.outcome = "raise", !.exc = b.exc,
                                  !.encCalls = b.encCalls]
                  ELSE IF s.raised
                  THEN [c0 EXCEPT !.outcome = "raise", !.exc = s.exc, !.k = k,
                                  !.labels = s.labels, !.knn = s.knn,
                                  !.encCalls = b.encCalls + s.encCalls]
                  ELSE CallBackend([c0 EXCEPT !.k = k, !.list = s.list,
                                              !.labels = s.labels, !.knn = s.knn,
                                              !.encCalls = b.encCalls + s.encCalls],
                                   AnswerPrompt(context, question), g)]

\* answer_question without the guard of lines 67-68
AnswerQuestion_NoGuard(st, question, es, encFail, g) ==
    AnswerWithEmails(st, question, es, encFail, g)

\* answer_question(question, es)
AnswerQuestion(st, question, es, encFail, g) ==
    IF es = <<>>
    THEN [st |-> st, builds |-> <<>>,
          call |-> [NoCall EXCEPT !.name = "answer_question", !.query = question,
                                  !.arg = es, !.text = NoEmailsAnswer]]
    ELSE AnswerWithEmails(st, question, es, encFail, g)

\* search_emails_by_content without the build of line 145: the search runs on
\* the index the instance already has
SearchEmailsByContent_NoBuild(st, query, es, encFail) ==
    LET c0 == [NoCall EXCEPT !.name = "search_emails_by_content", !.query = query,
                             !.arg = es]
        s == SearchEmailsFaiss(st, query, ContentTopK, encFail # 1, TRUE)
    IN  IF es = <<>>
        THEN [st |-> st, builds |-> <<>>, call |-> c0]
        ELSE [st |-> st, builds |-> <<>>,
              call |-> [c0 EXCEPT !.k = ContentTopK, !.outcome = Outcome(s.raised),
                                  !.exc = s.exc, !.list = s.list,
                                  !.labels = s.labels, !.knn = s.knn,
                                  !.encCalls = s.encCalls]]

\* search_emails_by_content(query, es)
SearchEmailsByContent(st, query, es, encFail) ==
    LET c0 == [NoCall EXCEPT !.name = "search_emails_by_content", !.query = query,
                             !.arg = es]
        b == BuildFaissIndex(st, es, encFail # 1)
        s == SearchEmailsFaiss(b.st, query, ContentTopK, encFail # 2, TRUE)
    IN  IF es = <<>>
        THEN [st |-> st, builds |-> <<>>, call |-> c0]
        ELSE [st |-> b.st, builds |-> <<BuildStatus(b, es)>>,
              call |-> IF b.raised
                       THEN [c0 EXCEPT !.outcome = "raise", !.exc = b.exc,
                                       !.encCalls = b.encCalls]
                       ELSE [c0 EXCEPT !.k = ContentTopK, !.outcome = Outcome(s.raised),
                                       !.exc = s.exc, !.list = s.list,
                                       !.labels = s.labels, !.knn = s.knn,
                                       !.encCalls = b.encCalls + s.encCalls]]

(***************************************************************************)
(* suggest_questions.                                                       *)
(***************************************************************************)
\* emails[:5] of lines 100-101
SuggestEmails == 5

\* questions[:5] of line 121
MaxQuestions == 5

\* the list of lines 93-99
FirstQuestions ==
    << <<"What are the main topics in my recent emails", "?">>,
       <<"Who are the most frequent senders", "?">>,
       <<"Are there any urgent emails I should prioritize", "?">>,
       <<"What meetings or events are mentioned", "?">>,
       <<"Are there any action items I need to follow up on", "?">> >>

\* the list of lines 114-120
SecondQuestions ==
    << <<"What are the main topics in these emails", "?">>,
       <<"Who are the key senders and what do they want", "?">>,
       <<"Are there any deadlines or urgent matters mentioned", "?">>,
       <<"What meetings or events are scheduled", "?">>,
       <<"Are there any action items I need to address", "?">> >>

SuggestPrompt(context) ==
    [template |-> "suggest_questions", context |-> context, question |-> ""]

\* a line kept by line 112 whether or not it holds a question mark
IsQuestionLine_AnyLine(q) == Strip(q) # <<>>

\* the condition of line 112: q.strip() and '?' in q
IsQuestionLine(q) == Strip(q) # <<>> /\ Contains(q, "?")

\* line 112 without the strip of the lines kept
ParseQuestions_Unstripped(response) ==
    SelectSeq(Split(ResponseString(response), "\n"), IsQuestionLine)

\* [q.strip() for q in response.split('\n') if q.strip() and '?' in q]
ParseQuestions(response) ==
    LET kept == SelectSeq(Split(ResponseString(response), "\n"), IsQuestionLine)
    IN  [i \in 1..Len(kept) |-> Strip(kept[i])]

\* suggest_questions without the guard of lines 92-99
SuggestQuestions_NoGuard(st, es, encFail, g) ==
    LET c0 == [NoCall EXCEPT !.name = "suggest_questions", !.arg = es]
        first == Take(es, SuggestEmails)
        b == BuildFaissIndex(st, first, encFail # 1)
        c1 == CallBackend([c0 EXCEPT !.encCalls = b.encCalls],
                          SuggestPrompt(create_email_context(first)), g)
        questions == ParseQuestions(c1.text)
    IN  [st |-> b.st, builds |-> <<BuildStatus(b, first)>>,
         call |-> IF b.raised
                  THEN [c0 EXCEPT !.outcome = "raise", !.exc = b.exc,
                                  !.encCalls = b.encCalls]
                  ELSE [c1 EXCEPT !.list = Take(IF questions = <<>>
                                                THEN SecondQuestions
                                                ELSE questions, MaxQuestions)]]

\* suggest_questions(es)
SuggestQuestions(st, es, encFail, g) ==
    LET c0 == [NoCall EXCEPT !.name = "suggest_questions", !.arg = es]
        first == Take(es, SuggestEmails)
        b == BuildFaissIndex(st, first, encFail # 1)
        c1 == CallBackend([c0 EXCEPT !.encCalls = b.encCalls],
                          SuggestPrompt(create_email_context(first)), g)
        questions == ParseQuestions(c1.text)
    IN  IF es = <<>>
        THEN [st |-> st, builds |-> <<>>, call |-> [c0 EXCEPT !.list = FirstQuestions]]
        ELSE [st |-> b.st, builds |-> <<BuildStatus(b, first)>>,
              call |-> IF b.raised
                       THEN [c0 EXCEPT !.outcome = "raise", !.exc = b.exc,
                                       !.encCalls = b.encCalls]
                       ELSE [c1 EXCEPT !.list = Take(IF questions = <<>>
                                                     THEN SecondQuestions
                                                     ELSE questions, MaxQuestions)]]

(***************************************************************************)
(* analyze_email_patterns.                                                  *)
(***************************************************************************)
NoEmailsAnalysis == Literal("No emails selected for analysis.")

AnalyzePrompt(context) ==
    [template |-> "analyze_email_patterns", context |-> context, question |-> ""]

\* analyze_email_patterns with a context of the first five emails
AnalyzeEmailPatterns_Capped(es, g) ==
    LET c0 == [NoCall EXCEPT !.name = "analyze_email_patterns", !.arg = es]
    IN  IF es = <<>> THEN [c0 EXCEPT !.text = NoEmailsAnalysis]
        ELSE CallBackend(c0, AnalyzePrompt(create_email_context(Take(es, AnswerTopK))), g)

\* analyze_email_patterns without the guard of lines 124-125
AnalyzeEmailPatterns_NoGuard(es, g) ==
    CallBackend([NoCall EXCEPT !.name = "analyze_email_patterns", !.arg = es],
                AnalyzePrompt(create_email_context(es)), g)

\* analyze_email_patterns(es): the record of the call; the retriever is not
\* used
AnalyzeEmailPatterns(es, g) ==
    LET c0 == [NoCall EXCEPT !.name = "analyze_email_patterns", !.arg = es]
    IN  IF es = <<>> THEN [c0 EXCEPT !.text = NoEmailsAnalysis]
        ELSE CallBackend(c0, AnalyzePrompt(create_email_context(es)), g)

(***************************************************************************)
(* EmailAI (email_ai.py): the tasks on one email.  Each fills its template  *)
(* with email_content[key] for the keys it reads, which raises KeyError for *)
(* an absent key, and returns self._generate_response(prompt).              *)
(***************************************************************************)
EmailTasks ==
    {"summarize_email", "generate_smart_reply", "categorize_email",
     "extract_action_items", "analyze_sentiment"}

\* the keys read, in the order of the template
TaskKeys(task) ==
    IF task \in {"summarize_email", "generate_smart_reply"}
    THEN <<"subject", "sender", "date", "body">>
    ELSE <<"subject", "sender", "body">>

\* email_content['body'][:500] of categorize_email; the bodies of the model
\* are shorter
CategorizeBodyLimit == 500

\* reply_tone of generate_smart_reply
DefaultTone == "professional"

TaskValue(task, email, key) ==
    IF task = "categorize_email" /\ key = "body"
    THEN Take(email[key], CategorizeBodyLimit)
    ELSE email[key]

TaskPrompt(task, email) ==
    [template |-> task,
     context |-> [i \in 1..Len(TaskKeys(task)) |-> TaskValue(task, email, TaskKeys(task)[i])],
     question |-> IF task = "generate_smart_reply" THEN DefaultTone ELSE ""]

\* email_ai.<task>(email)
EmailTask(task, email, g) ==
    LET c0 == [NoCall EXCEPT !.name = task, !.arg = <<email>>]
    IN  IF \E i \in 1..Len(TaskKeys(task)) : TaskKeys(task)[i] \notin DOMAIN email
        THEN [c0 EXCEPT !.outcome = "raise", !.exc = "KeyError"]
        ELSE CallBackend(c0, TaskPrompt(task, email), g)

\* email_ai.generate_search_query(natural_query)
GenerateSearchQuery(natural_query, g) ==
    CallBackend([NoCall EXCEPT !.name = "generate_search_query", !.query = natural_query],
                [template |-> "generate_search_query", context |-> <<>>,
                 question |-> natural_query], g)

(***************************************************************************)
(* The AI settings (config.py, settings_ui.py) and the provider adapter     *)
(* (ai_provider.py).  A temperature is a number of tenths.                  *)
(***************************************************************************)
AI_PROVIDERS == {"OpenAI", "Gemini", "Claude", "Grok"}

DEFAULT_AI_PROVIDER == "OpenAI"

\* the names of AI_CONFIG[provider]["models"]
Models(provider) ==
    CASE provider = "OpenAI" -> {"gpt-4o", "gpt-4-turbo", "gpt-4", "gpt-3.5-turbo"}
      [] provider = "Gemini" -> {"gemini-2.5-flash", "gemini-1.5-pro", "gemini-2.0-pro",
                                 "gemini-1.0-ultra"}
      [] provider = "Claude" -> {"claude-3-opus-20240229", "claude-3-sonnet-20240229",
                                 "claude-3-haiku-20240307"}
      [] provider = "Grok" -> {"grok-1.5", "grok-1.5-vision", "grok-1"}

\* AI_CONFIG[provider]["default_model"]
DefaultModel(provider) ==
    CASE provider = "OpenAI" -> "gpt-4o"
      [] provider = "Gemini" -> "gemini-2.5-flash"
      [] provider = "Claude" -> "claude-3-sonnet-20240229"
      [] provider = "Grok" -> "grok-1.5"

\* get_ai_settings() in the session s
GetAiSettings(s) ==
    [model |-> IF s.selected_model # "" THEN s.selected_model
               ELSE DefaultModel(s.selected_ai_provider),
     temperature |-> IF "temperature_setting" \in s.keys THEN s.temperature_setting ELSE 7,
     max_tokens |-> IF "max_tokens_setting" \in s.keys THEN s.max_tokens_setting ELSE 1000,
     provider |-> s.selected_ai_provider,
     api_key |-> s.selected_ai_provider \in s.api_keys]

\* get_ai_provider(provider_name) in the session s gives a provider: the
\* session holds an API key for it
HasProvider(s, provider_name) == provider_name \in s.api_keys

\* The events of the widgets of the sidebar: a provider button, the API key
\* typed, a model chosen, a slider moved; "none" for an event elsewhere.
SidebarEvents ==
    {[kind |-> "none", value |-> ""]}
        \cup {[kind |-> "provider", value |-> p] : p \in AI_PROVIDERS}
        \cup {[kind |-> "api_key", value |-> ""]}
        \cup {[kind |-> "model", value |-> m] : m \in UNION {Models(p) : p \in AI_PROVIDERS}}
        \cup {[kind |-> "temperature", number |-> t] : t \in {0, 20}}
        \cup {[kind |-> "max_tokens", number |-> t] : t \in {100, 4000}}

\* the events that the sidebar shown in the session s offers
Offered(s, ev) ==
    CASE ev.kind = "model" -> ev.value \in Models(s.selected_ai_provider)
      [] ev.kind \in {"temperature", "max_tokens"} -> s.selected_ai_provider = "OpenAI"
      [] OTHER -> TRUE

\* show_ai_settings() in the session s for the event ev: the session it
\* leaves; a provider button ends the run (st.rerun(), line 55).  The
\* selectbox and the sliders keep their value from run to run while they are
\* shown, start at their default, and a slider that is not shown loses its
\* key.
ShowAiSettings(s, ev) ==
    IF ev.kind = "provider" THEN [s EXCEPT !.selected_ai_provider = ev.value]
    ELSE LET shown == s.selected_ai_provider = "OpenAI"
         IN  [s EXCEPT
                !.selected_model =
                    IF ev.kind = "model" THEN ev.value
                    ELSE IF @ \in Models(s.selected_ai_provider) THEN @
                    ELSE DefaultModel(s.selected_ai_provider),
                !.temperature_setting =
                    IF ~shown THEN 0
                    ELSE IF ev.kind = "temperature" THEN ev.number
                    ELSE IF "temperature_setting" \in s.keys THEN @ ELSE 7,
                !.max_tokens_setting =
                    IF ~shown THEN 0
                    ELSE IF ev.kind = "max_tokens" THEN ev.number
                    ELSE IF "max_tokens_setting" \in s.keys THEN @ ELSE 1000,
                !.keys = IF shown THEN {"temperature_setting", "max_tokens_setting"} ELSE {},
                !.api_keys = IF ev.kind = "api_key" THEN @ \cup {s.selected_ai_provider}
                             ELSE @]

\* The keyword arguments with which the orchestrators call
\* self._generate_response: none.
GenerationKwargs == [key \in {} |-> ""]

\* AIProvider.generate_response(prompt, **kwargs): the requests it makes to
\* the API of the provider, with the parameters it passes
AdapterRequests(provider_name, kwargs) ==
    CASE provider_name = "OpenAI" ->
             <<[model |-> Get(kwargs, "model", "gpt-4"),
                temperature |-> Get(kwargs, "temperature", 7),
                max_tokens |-> Get(kwargs, "max_tokens", 1000)]>>
      [] provider_name = "Gemini" ->
             <<[model |-> Get(kwargs, "model", "gemini-pro")]>>
      [] provider_name = "Claude" ->
             <<[model |-> Get(kwargs, "model", "claude-3-opus-20240229"),
                temperature |-> Get(kwargs, "temperature", 7),
                max_tokens |-> Get(kwargs, "max_tokens", 1000)]>>
      [] OTHER -> <<>>

(***************************************************************************)
(* GmailManager (gmail_manager.py).  A manager is its two fields, service   *)
(* and creds.  A Python value that may be None is a record whose kind says  *)
(* what it is.  The outcome of a request to the Gmail API is its response   *)
(* or the exception it raises; requests are the requests a call issued.     *)
(***************************************************************************)
PyNone == [kind |-> "None"]

PyList(l) == [kind |-> "list", item |-> l]

PyDict(d) == [kind |-> "dict", item |-> d]

\* the truth value of a list, a dict or None
Truthy(v) == v.kind # "None" /\ v.item # <<>>

NoService == "None"

\* GmailManager()
NewGmailManager == [service |-> NoService, creds |-> "None"]

\* How authenticate can end: no credentials.json, a failed OAuth flow, no
\* credentials obtained, credentials obtained and build() raising, success.
AuthOutcomes == {"no_credentials_file", "flow_failed", "no_creds", "build_failed", "ok"}

\* gmail_manager.authenticate()
Authenticate(mgr, o) ==
    IF o = "ok" THEN [value |-> TRUE, mgr |-> [service |-> "service", creds |-> "creds"]]
    ELSE IF o = "build_failed" THEN [value |-> FALSE, mgr |-> [mgr EXCEPT !.creds = "creds"]]
    ELSE [value |-> FALSE, mgr |-> mgr]

\* The messages of the mailbox; body is the decoded text that _extract_body
\* finds in the payload.
Mailbox ==
    << [id |-> "1", body |-> <<"meet", "at", "3pm">>, threadId |-> "t1",
        headers |-> [Subject |-> "Meeting tomorrow", From |-> "a@x.com", Date |-> "Mon"]],
       [id |-> "2", body |-> <<"please", "pay">>, threadId |-> "t2",
        headers |-> [Subject |-> "Invoice", From |-> "b@x.com", Date |-> "Tue"]],
       [id |-> "3", body |-> <<"lunch">>, threadId |-> "t3",
        headers |-> [From |-> "c@x.com"]] >>

\* extract_email_content(message)
ExtractEmailContent(message) ==
    [id |-> message.id,
     subject |-> Get(message.headers, "Subject", "No Subject"),
     sender |-> Get(message.headers, "From", "Unknown Sender"),
     date |-> Get(message.headers, "Date", "Unknown Date"),
     body |-> message.body,
     thread_id |-> message.threadId]

\* How a request to the Gmail API can end.
ApiOutcomes == {"ok", "HttpError", "Exception"}

\* the response of messages.list(maxResults = max_results) on the mailbox box:
\* a dict that has no key "messages" when there is no message, and else has
\* the id and the threadId of each message
ListResponse(box, max_results) ==
    IF box = <<>> THEN <<>>
    ELSE [messages |-> [i \in 1..Min(max_results, Len(box)) |->
                            [id |-> box[i].id, threadId |-> box[i].threadId]]]

\* messages.list(userId='me', q=query, maxResults=max_results)
ListRequest(query, max_results) ==
    [kind |-> "messages.list", query |-> query, maxResults |-> max_results]

\* get_messages that lets an exception other than HttpError through
GetMessages_HttpErrorOnly(mgr, query, max_results, box, api) ==
    IF mgr.service = NoService
    THEN [value |-> PyList(<<>>), raised |-> FALSE, mgr |-> mgr, requests |-> <<>>]
    ELSE [value |-> PyList(IF api = "ok"
                           THEN Get(ListResponse(box, max_results), "messages", <<>>)
                           ELSE <<>>),
          raised |-> api = "Exception", mgr |-> mgr, requests |-> <<ListRequest(query, max_results)>>]

\* get_messages that drops the service when the request fails
GetMessages_DropsService(mgr, query, max_results, box, api) ==
    IF mgr.service = NoService
    THEN [value |-> PyList(<<>>), raised |-> FALSE, mgr |-> mgr, requests |-> <<>>]
    ELSE [value |-> PyList(IF api = "ok"
                           THEN Get(ListResponse(box, max_results), "messages", <<>>)
                           ELSE <<>>),
          raised |-> FALSE,
          mgr |-> IF api = "ok" THEN mgr ELSE [mgr EXCEPT !.service = NoService],
          requests |-> <<ListRequest(query, max_results)>>]

\* gmail_manager.get_messages(query, max_results) when the messages that
\* match the query are box and the request, if one is made, ends as api
GetMessages(mgr, query, max_results, box, api) ==
    IF mgr.service = NoService
    THEN [value |-> PyList(<<>>), raised |-> FALSE, mgr |-> mgr, requests |-> <<>>]
    ELSE [value |-> PyList(IF api = "ok"
                           THEN Get(ListResponse(box, max_results), "messages", <<>>)
                           ELSE <<>>),
          raised |-> FALSE, mgr |-> mgr, requests |-> <<ListRequest(query, max_results)>>]

\* get_message_details without the guard of lines 118-120
GetMessageDetails_NoGuard(mgr, box, msg_id, api) ==
    [value |-> IF api = "ok" /\ \E i \in 1..Len(box) : box[i].id = msg_id
               THEN PyDict(box[CHOOSE i \in 1..Len(box) : box[i].id = msg_id])
               ELSE PyNone,
     raised |-> FALSE, mgr |-> mgr, requests |-> <<[kind |-> "messages.get", id |-> msg_id]>>]

\* gmail_manager.get_message_details(msg_id); the API answers with an
\* HttpError for an id that is not in the mailbox
GetMessageDetails(mgr, box, msg_id, api) ==
    IF mgr.service = NoService
    THEN [value |-> PyNone, raised |-> FALSE, mgr |-> mgr, requests |-> <<>>]
    ELSE [value |-> IF api = "ok" /\ \E i \in 1..Len(box) : box[i].id = msg_id
                    THEN PyDict(box[CHOOSE i \in 1..Len(box) : box[i].id = msg_id])
                    ELSE PyNone,
          raised |-> FALSE, mgr |-> mgr, requests |-> <<[kind |-> "messages.get", id |-> msg_id]>>]

\* messages.send(userId='me', body={'raw': ...}): the raw message is the
\* header lines To, Subject, In-Reply-To and References, an empty line and
\* the body
SendRequest(thread_id, to_email, subject, body) ==
    [kind |-> "messages.send",
     raw |-> <<[kind |-> "To: ", value |-> to_email],
               [kind |-> "Subject: Re: ", value |-> subject],
               [kind |-> "In-Reply-To: ", value |-> thread_id],
               [kind |-> "References: ", value |-> thread_id],
               [kind |-> "empty"],
               [kind |-> "body", value |-> body]>>]

\* send_reply that answers a failed request with an empty dict
SendReply_EmptyDict(mgr, thread_id, to_email, subject, body, api) ==
    IF mgr.service = NoService
    THEN [value |-> PyNone, raised |-> FALSE, mgr |-> mgr, requests |-> <<>>]
    ELSE [value |-> IF api = "ok" THEN PyDict([id |-> "sent", threadId |-> thread_id])
                    ELSE PyDict(<<>>),
          raised |-> FALSE, mgr |-> mgr, requests |-> <<SendRequest(thread_id, to_email, subject, body)>>]

\* gmail_manager.send_reply(thread_id, to_email, subject, body): the result
\* of messages.send, or None
SendReply(mgr, thread_id, to_email, subject, body, api) ==
    IF mgr.service = NoService
    THEN [value |-> PyNone, raised |-> FALSE, mgr |-> mgr, requests |-> <<>>]
    ELSE [value |-> IF api = "ok" THEN PyDict([id |-> "sent", threadId |-> thread_id])
                    ELSE PyNone,
          raised |-> FALSE, mgr |-> mgr, requests |-> <<SendRequest(thread_id, to_email, subject, body)>>]

(***************************************************************************)
(* The session (st.session_state) and the record of a run.  The record of   *)
(* a run or of a call on the manager says what was done (name, with         *)
(* argument arg), what it gave (value), whether it raised, the requests     *)
(* made to the Gmail API and how the API answered them (api), the           *)
(* orchestrator calls made (calls), whether the tabs were rendered, and     *)
(* the lists categories and senders of the analytics page; backend are the  *)
(* requests made to the API of the AI provider, with their parameters.      *)
(***************************************************************************)
\* the session once main and render_chatbot_tab have initialized their keys
\* and before the sidebar has run.  keys are those of the keys of the two
\* sliders that are present; selected_model "" is an absent key.  api_keys
\* are the providers whose API key the session holds.
NewSession ==
    [gmail_authenticated |-> FALSE, selected_emails_for_chat |-> <<>>,
     chat_history |-> <<>>, selected_ai_provider |-> DEFAULT_AI_PROVIDER,
     selected_model |-> "", temperature_setting |-> 0, max_tokens_setting |-> 0,
     keys |-> {}, api_keys |-> {}]

NoRun == [value |-> PyNone, name |-> "init", arg |-> "", raised |-> FALSE,
          requests |-> <<>>, api |-> "", calls |-> <<>>, tabs |-> FALSE,
          categories |-> <<>>, senders |-> <<>>, backend |-> <<>>]

(***************************************************************************)
(* State machine: one action per public method call on one chatbot          *)
(* instance.  call is the record of the most recent call.  lastBuild is how *)
(* the most recent build_faiss_index ended and on what; its field again     *)
(* says that this build succeeded and that the build before it had          *)
(* succeeded on the same emails.  session_state is st.session_state,        *)
(* gmail_manager the GmailManager at hand, and ui the record of the most    *)
(* recent run of a page or call on the manager.                             *)
(***************************************************************************)
Retriever == [emails |-> emails, faiss_index |-> faiss_index, email_vectors |-> email_vectors]

Init ==
    /\ emails = InitRetriever.emails
    /\ faiss_index = InitRetriever.faiss_index
    /\ email_vectors = InitRetriever.email_vectors
    /\ lastBuild = [status |-> "never", arg |-> <<>>, again |-> FALSE]
    /\ call = NoCall
    /\ session_state = NewSession
    /\ gmail_manager = NewGmailManager
    /\ ui = NoRun

\* the chatbot instance and the record of its calls after an operation that
\* gave r
FinishCore(r) ==
    /\ emails' = r.st.emails
    /\ faiss_index' = r.st.faiss_index
    /\ email_vectors' = r.st.email_vectors
    /\ lastBuild' = IF r.builds = <<>> THEN lastBuild
                    ELSE [status |-> r.builds[1].status, arg |-> r.builds[1].arg,
                          again |-> /\ r.builds[1].status = "ok"
                                    /\ lastBuild.status = "ok"
                                    /\ lastBuild.arg = r.builds[1].arg]
    /\ call' = [r.call EXCEPT !.replaced =
                      /\ r.builds # <<>>
                      /\ \E i \in 1..Len(emails) :
                             \A j \in 1..Len(r.builds[1].arg) : r.builds[1].arg[j] # emails[i]]

\* the state after an operation on the chatbot or on EmailAI that gave r
Finish(r) == FinishCore(r) /\ UNCHANGED <<session_state, gmail_manager, ui>>

\* chatbot.build_faiss_index(es)
DoBuild ==
    \E es \in EmailLists, encFail \in 0..1 :
        \E b \in {BuildFaissIndex(Retriever, es, encFail # 1)} :
            Finish(WithEncoder(
                [st |-> b.st, builds |-> <<BuildStatus(b, es)>>,
                 call |-> [NoCall EXCEPT !.name = "build_faiss_index", !.arg = es,
                                         !.outcome = Outcome(b.raised), !.exc = b.exc,
                                         !.encCalls = b.encCalls]], encFail))

\* chatbot.search_emails_faiss(q, k)
DoSearch ==
    \E q \in Queries, k \in 0..MaxK, encFail \in 0..1 :
        \E kChecked \in (IF k = 0 THEN BOOLEAN ELSE {TRUE}) :
            \E s \in {SearchEmailsFaiss(Retriever, q, k, encFail # 1, kChecked)} :
                Finish(WithEncoder(
                    [st |-> Retriever, builds |-> <<>>,
                     call |-> [NoCall EXCEPT !.name = "search_emails_faiss",
                                             !.query = q, !.k = k,
                                             !.outcome = Outcome(s.raised),
                                             !.exc = s.exc, !.list = s.list,
                                             !.labels = s.labels, !.knn = s.knn,
                                             !.encCalls = s.encCalls]], encFail))

\* chatbot.answer_question(q, es), es from the lists lists
AnswerQuestionStep(lists) ==
    \E q \in Queries, es \in lists, encFail \in EncFails :
        \E g \in (IF encFail = 0 THEN GenOutcomes ELSE {GenFailure}) :
            \E r \in {WithEncoder(AnswerQuestion(Retriever, q, es, encFail, g), encFail)} :
                Finish(r)

DoAnswerQuestion == AnswerQuestionStep(EmailLists)

\* chatbot.search_emails_by_content(q, es), es from the lists lists
SearchByContentStep(lists) ==
    \E q \in Queries, es \in lists, encFail \in EncFails :
        \E r \in {WithEncoder(SearchEmailsByContent(Retriever, q, es, encFail), encFail)} :
            Finish(r)

DoSearchByContent == SearchByContentStep(EmailLists)

\* chatbot.suggest_questions(es), es from the lists lists, when the backend's
\* outcome is one of outcomes
SuggestQuestionsStep(lists, outcomes) ==
    \E es \in lists, encFail \in 0..1 :
        \E g \in (IF encFail = 0 THEN outcomes ELSE {GenFailure}) :
            \E r \in {WithEncoder(SuggestQuestions(Retriever, es, encFail, g), encFail)} :
                Finish(r)

DoSuggestQuestions == SuggestQuestionsStep(EmailLists, GenOutcomes)

Next ==
    \/ DoBuild
    \/ DoSearch
    \/ DoAnswerQuestion
    \/ DoSearchByContent
    \/ DoSuggestQuestions

Spec == Init /\ [][Next]_vars

(***************************************************************************)
(* The task orchestrators on longer lists: a second specification, of the   *)
(* calls the chat page and the email page make with the selected emails.    *)
(* The lists are the leading parts of two orders of seven emails.           *)
(***************************************************************************)
MaxTaskEmails == 6

Email4 == [id |-> "4", subject |-> "Re: lunch", body |-> <<>>]
Email5 == [id |-> "5", subject |-> "", sender |-> "e@x.com", date |-> "Fri"]
Email6 == [id |-> "6", subject |-> "Standup notes", sender |-> "f@x.com",
           date |-> "Sat", body |-> <<"notes">>, thread_id |-> "t6"]
Email7 == [id |-> "7", subject |-> "Offer letter", sender |-> "g@x.com",
           date |-> "Sun", body |-> <<"offer", "attached">>, thread_id |-> "t7"]

TaskOrders ==
    { <<Email1, Email2, Email3, Email4, Email5, Email6, Email7>>,
      <<Email7, Email6, Email2, Email5, Email1, Email4, Email3>> }

TaskLists == {Take(order, len) : order \in TaskOrders, len \in 0..MaxTaskEmails}

\* the emails the email page hands to EmailAI
TaskEmails == {Email1, Email3}

\* chatbot.answer_question(q, es)
DoAnswerTask == AnswerQuestionStep(TaskLists)

\* chatbot.search_emails_by_content(q, es)
DoSearchByContentTask == SearchByContentStep(TaskLists)

\* chatbot.suggest_questions(es)
DoSuggestTask == SuggestQuestionsStep(TaskLists, GenOutcomes)

\* chatbot.analyze_email_patterns(es)
DoAnalyzeEmailPatterns ==
    \E es \in TaskLists, g \in GenOutcomes :
        \E c \in {AnalyzeEmailPatterns(es, g)} :
            Finish([st |-> Retriever, builds |-> <<>>, call |-> c])

\* email_ai.<task>(email)
DoEmailTask ==
    \E task \in EmailTasks, email \in TaskEmails, g \in GenOutcomes :
        \E c \in {EmailTask(task, email, g)} :
            Finish([st |-> Retriever, builds |-> <<>>, call |-> c])

\* email_ai.generate_search_query(q)
DoGenerateSearchQuery ==
    \E q \in Queries, g \in GenOutcomes :
        \E c \in {GenerateSearchQuery(q, g)} :
            Finish([st |-> Retriever, builds |-> <<>>, call |-> c])

NextTasks ==
    \/ DoAnswerTask
    \/ DoSearchByContentTask
    \/ DoSuggestTask
    \/ DoAnalyzeEmailPatterns
    \/ DoEmailTask
    \/ DoGenerateSearchQuery

SpecTasks == Init /\ [][NextTasks]_vars

(***************************************************************************)
(* suggest_questions on the texts the backend can return: a third           *)
(* specification.  A text is up to MaxLines lines joined by line breaks,   *)
(* or one of two longer ones; a failure carries a message with or without   *)
(* a question mark.                                                         *)
(***************************************************************************)
MaxLines == 2

ResponseLines ==
    { <<"What is due", "?">>,
      <<" ", "2.", " ", "Who wrote", "?", " ", "\r">>,
      <<"Why", "?", " ", "Because.">>,
      <<"Here are some questions:">>,
      <<" ", "\t">> }

ManyLines ==
    << <<"Q1", "?">>, <<" ", "Q2", "?", " ">>, <<>>, <<"Q3", "?">>,
       <<"not a question">>, <<"Q4", "?">>, <<"Q5", "?">>, <<"Q6", "?">>,
       <<"Q7", "?">> >>

ResponseTexts ==
    {Join(lines, "\n") : lines \in SeqsUpTo(ResponseLines, MaxLines)}
        \cup {Join(ManyLines, "\n"), Join(Take(ManyLines, 6), "\n")}

FailureMessages ==
    { <<"quota exceeded">>,
      <<"what model", "?">>,
      <<"bad request", "\n", " ", "retry", "?", "\n">> }

SuggestOutcomes ==
    {[ok |-> TRUE, text |-> str, msg |-> <<>>] : str \in ResponseTexts}
        \cup {[ok |-> FALSE, text |-> <<>>, msg |-> str] : str \in FailureMessages}

SuggestLists == {Take(order, len) : order \in TaskOrders, len \in {0, 1, MaxTaskEmails}}

\* chatbot.suggest_questions(es)
DoSuggestFromText == SuggestQuestionsStep(SuggestLists, SuggestOutcomes)

NextSuggest == DoSuggestFromText

SpecSuggest == Init /\ [][NextSuggest]_vars

(***************************************************************************)
(* The context assembler as a pure function: a second specification whose   *)
(* only action applies create_email_context to a list of dicts, any of      *)
(* whose keys may be absent.                                                *)
(***************************************************************************)
MaxContextEmails == 3

ContextPool == EmailPool \cup {Email4, Email5}

ContextLists == SeqsUpTo(ContextPool, MaxContextEmails)

\* chatbot.create_email_context(es)
DoCreateContext ==
    \E es \in ContextLists :
        Finish([st |-> Retriever, builds |-> <<>>,
                call |-> [NoCall EXCEPT !.name = "create_email_context", !.arg = es,
                                        !.text = create_email_context(es)]])

NextContext == DoCreateContext

SpecContext == Init /\ [][NextContext]_vars

(***************************************************************************)
(* The Gmail manager alone: a third kind of specification, of the calls    *)
(* made on one GmailManager.  The mailbox is the leading part of Mailbox.   *)
(***************************************************************************)
MaxMessages == 2

Mailboxes == {Take(Mailbox, n) : n \in 0..MaxMessages}

\* the state after a call on the manager that gave r
FinishGmail(name, arg, api, r) ==
    /\ gmail_manager' = r.mgr
    /\ ui' = [NoRun EXCEPT !.value = r.value, !.name = name, !.arg = arg,
                           !.raised = r.raised, !.requests = r.requests,
                           !.api = IF r.requests = <<>> THEN "" ELSE api]
    /\ UNCHANGED <<emails, faiss_index, email_vectors, lastBuild, call, session_state>>

\* gmail_manager = GmailManager()
DoNewManager ==
    \E r \in {[value |-> PyNone, raised |-> FALSE, mgr |-> NewGmailManager,
               requests |-> <<>>]} :
        FinishGmail("GmailManager", "", "", r)

\* gmail_manager.authenticate()
DoAuthenticate ==
    \E o \in AuthOutcomes :
        \E r \in {Authenticate(gmail_manager, o)} :
            FinishGmail("authenticate", o, "",
                        [value |-> PyDict(<<r.value>>), raised |-> FALSE, mgr |-> r.mgr,
                         requests |-> <<>>])

\* gmail_manager.get_messages(query, max_results): the default query or one
\* of a page; one message, the default of the method, or what the chat page
\* asks for
DoGetMessages ==
    \E query \in {"", "from:linkedin", "is:unread"}, n \in {1, 10, 50},
       box \in Mailboxes, api \in ApiOutcomes :
        \E r \in {GetMessages(gmail_manager, query, n, box, api)} :
            FinishGmail("get_messages", query, api, r)

\* gmail_manager.get_message_details(msg_id); "9" is the id of no message
DoGetMessageDetails ==
    \E box \in Mailboxes, msg_id \in {"1", "2", "3", "9"}, api \in ApiOutcomes :
        \E r \in {GetMessageDetails(gmail_manager, box, msg_id, api)} :
            FinishGmail("get_message_details", msg_id,
                        IF api = "ok" /\ \A i \in 1..Len(box) : box[i].id # msg_id
                        THEN "HttpError" ELSE api, r)

\* gmail_manager.send_reply(thread_id, to_email, subject, body)
DoSendReply ==
    \E email \in {ExtractEmailContent(Mailbox[i]) : i \in 1..Len(Mailbox)},
       body \in {<<"Thanks,", " ", "noted.">>, <<"See you there.">>, <<>>},
       api \in ApiOutcomes :
        \E r \in {SendReply(gmail_manager, email.thread_id, email.sender,
                            email.subject, body, api)} :
            FinishGmail("send_reply", email.thread_id, api, r)

NextGmail ==
    \/ DoNewManager
    \/ DoAuthenticate
    \/ DoGetMessages
    \/ DoGetMessageDetails
    \/ DoSendReply

SpecGmail == Init /\ [][NextGmail]_vars

(***************************************************************************)
(* The chat page (render_chatbot_tab of ui_components.py).  One run of the  *)
(* page is one action: Streamlit runs the page from the top for each event  *)
(* of a widget, and st.rerun() ends the run.  The page is handed the        *)
(* manager and the chatbot by its caller.  pressed is the button of the     *)
(* event, "" for an event of another widget.  The button of lines 732-741   *)
(* calls nothing: the text input it creates is empty in the run of the      *)
(* press.  The buttons of the suggested questions put a question in the     *)
(* text area, whose content is an input here.                               *)
(***************************************************************************)
\* list.pop(i) for the entry at place i + 1
RemoveAt(s, i) == SubSeq(s, 1, i - 1) \o SubSeq(s, i + 1, Len(s))

\* lines 666-670: the contents of the messages ids whose details are obtained;
\* the request number fail fails, n is the number of the next request
RECURSIVE LoadSelected(_, _, _, _, _)
LoadSelected(mgr, box, ids, fail, n) ==
    IF ids = <<>> THEN <<>>
    ELSE LET d == GetMessageDetails(mgr, box, Head(ids),
                                    IF n = fail THEN "HttpError" ELSE "ok")
         IN  (IF Truthy(d.value) THEN <<ExtractEmailContent(d.value.item)>> ELSE <<>>)
                 \o LoadSelected(mgr, box, Tail(ids), fail, n + 1)

\* the chatbot as the page found it, when it has called none of its methods
Untouched(st) == [st |-> st, builds |-> <<>>, call |-> NoCall]

\* lines 717-726 with the guard of line 718 left out
AskQuestion_NoGuard(s, st, question, encFail, g) ==
    LET r == WithEncoder(AnswerQuestion(st, question, s.selected_emails_for_chat,
                                        encFail, g), encFail)
    IN  IF r.call.outcome = "raise"
        THEN [core |-> r, raised |-> TRUE, calls |-> <<"answer_question">>, session |-> s]
        ELSE [core |-> r, raised |-> FALSE, calls |-> <<"answer_question">>,
              session |-> [s EXCEPT !.chat_history = Append(@, <<question, r.call.text>>)]]

\* lines 717-726 putting the new pair first
AskQuestion_Prepends(s, st, question, encFail, g) ==
    LET r == WithEncoder(AnswerQuestion(st, question, s.selected_emails_for_chat,
                                        encFail, g), encFail)
    IN  IF s.selected_emails_for_chat = <<>>
        THEN [core |-> Untouched(st), raised |-> FALSE, calls |-> <<>>, session |-> s]
        ELSE IF r.call.outcome = "raise"
        THEN [core |-> r, raised |-> TRUE, calls |-> <<"answer_question">>, session |-> s]
        ELSE [core |-> r, raised |-> FALSE, calls |-> <<"answer_question">>,
              session |-> [s EXCEPT !.chat_history = <<<<question, r.call.text>>>> \o @]]

\* lines 717-726, the "Ask Question" button, with question in the text area
AskQuestion(s, st, question, encFail, g) ==
    LET r == WithEncoder(AnswerQuestion(st, question, s.selected_emails_for_chat,
                                        encFail, g), encFail)
    IN  IF s.selected_emails_for_chat = <<>>
        THEN [core |-> Untouched(st), raised |-> FALSE, calls |-> <<>>, session |-> s]
        ELSE IF r.call.outcome = "raise"
        THEN [core |-> r, raised |-> TRUE, calls |-> <<"answer_question">>, session |-> s]
        ELSE [core |-> r, raised |-> FALSE, calls |-> <<"answer_question">>,
              session |-> [s EXCEPT !.chat_history = Append(@, <<question, r.call.text>>)]]

\* lines 743-760, the rest of the page after a run p so far: "Analyze Email
\* Patterns" when it is the button pressed, then the suggested questions
QuickActions(p, pressed, encFail, g, g2) ==
    LET es == p.session.selected_emails_for_chat
        a == IF pressed = "analyze" /\ es # <<>>
             THEN [core |-> [p.core EXCEPT !.call = AnalyzeEmailPatterns(es, g)],
                   raised |-> FALSE, calls |-> Append(p.calls, "analyze_email_patterns"),
                   session |-> p.session]
             ELSE p
        r == WithEncoder(SuggestQuestions(a.core.st, es, encFail, g2), encFail)
    IN  IF es = <<>> THEN a
        ELSE [core |-> r, raised |-> r.call.outcome = "raise",
              calls |-> Append(a.calls, "suggest_questions"), session |-> a.session]

\* render_chatbot_tab(gmail_manager, rag_chatbot) in a session s with the
\* manager mgr and the chatbot st, for the event pressed: the messages that
\* get_messages gives are those of box, ids are the ids of the messages
\* chosen in the multiselect, i is the place of the entry whose "Delete" is
\* pressed, question the content of the text area
RenderChatbotTab(s, mgr, st, box, api, pressed, ids, fail, i, question, encFail, g, g2) ==
    LET m == GetMessages(mgr, "", 50, box, api)
        messages == m.value
        s1 == IF Truthy(messages) /\ pressed = "load"
              THEN [s EXCEPT !.selected_emails_for_chat = LoadSelected(mgr, box, ids, fail, 1)]
              ELSE s
        p1 == [core |-> Untouched(st), raised |-> FALSE, calls |-> <<>>, session |-> s1]
    IN  IF Truthy(messages) /\ s1.selected_emails_for_chat # <<>> /\ pressed = "clear"
        THEN [p1 EXCEPT !.session = [s1 EXCEPT !.selected_emails_for_chat = <<>>,
                                               !.chat_history = <<>>]]
        ELSE IF pressed = "delete" /\ i \in 1..Len(s1.chat_history)
        THEN [p1 EXCEPT !.session = [s1 EXCEPT !.chat_history = RemoveAt(@, i)]]
        ELSE IF pressed = "ask" /\ question # ""
                /\ s1.selected_emails_for_chat # <<>>
        THEN AskQuestion(s1, st, question, encFail, g)
        ELSE IF pressed = "ask" /\ question # ""
        THEN QuickActions(AskQuestion(s1, st, question, encFail, g), pressed, encFail, g, g2)
        ELSE QuickActions(p1, pressed, encFail, g, g2)

MaxHistory == 2

\* what the multiselect of line 656 can give on the messages of box: ids of
\* distinct messages, in the order they were chosen
Selections(box) == {ids \in SeqsUpTo({box[n].id : n \in 1..Len(box)}, Len(box)) : Injective(ids)}

\* what get_messages finds in a run: the messages that match, and how the
\* request ends
Fetches ==
    { [box |-> Take(Mailbox, MaxMessages), api |-> "ok"],
      [box |-> <<>>, api |-> "ok"],
      [box |-> Take(Mailbox, MaxMessages), api |-> "HttpError"] }

\* one run of the page for the event pressed
ChatRun(box, api, pressed, ids, fail, i, question, encFail, g, g2) ==
    \E p \in {RenderChatbotTab(session_state, gmail_manager, Retriever, box, api,
                               pressed, ids, fail, i, question, encFail, g, g2)} :
        /\ FinishCore(p.core)
        /\ session_state' = p.session
        /\ ui' = [NoRun EXCEPT !.name = pressed, !.arg = question,
                               !.raised = p.raised, !.calls = p.calls]
        /\ UNCHANGED gmail_manager

\* the outcomes of the backend for the suggested questions of a run in which
\* the encoder call encFail fails
SuggestReplies(encFail) == IF encFail = 0 THEN GenOutcomes ELSE {GenFailure}

\* a run for an event of a widget that is no button
DoChatRender ==
    \E f \in Fetches, encFail \in 0..1 :
        \E g2 \in SuggestReplies(encFail) :
            ChatRun(f.box, f.api, "", <<>>, 0, 0, "", encFail, GenFailure, g2)

\* "Load Selected Emails", shown when get_messages gave messages
DoChatLoad ==
    /\ gmail_manager.service # NoService
    /\ \E box \in Mailboxes \ {<<>>}, encFail \in 0..1 :
           \E ids \in Selections(box), g2 \in SuggestReplies(encFail) :
               \E fail \in 0..Len(ids) :
                   ChatRun(box, "ok", "load", ids, fail, 0, "", encFail, GenFailure, g2)

\* "Clear Selection", shown when get_messages gave messages and emails are
\* loaded
DoChatClear ==
    /\ gmail_manager.service # NoService
    /\ session_state.selected_emails_for_chat # <<>>
    /\ ChatRun(Take(Mailbox, MaxMessages), "ok", "clear", <<>>, 0, 0, "", 0,
               GenFailure, GenFailure)

\* "Delete" of the entry at place i of the history
DoChatDelete ==
    \E f \in Fetches, i \in 1..Len(session_state.chat_history) :
        ChatRun(f.box, f.api, "delete", <<>>, 0, i, "", 0, GenFailure, GenFailure)

\* "Ask Question", enabled when the text area is not empty
DoChatAsk ==
    /\ Len(session_state.chat_history) < MaxHistory
    /\ \E f \in Fetches, question \in Queries, encFail \in EncFails :
           \E g \in (IF encFail = 0 THEN GenOutcomes ELSE {GenFailure}) :
               ChatRun(f.box, f.api, "ask", <<>>, 0, 0, question, encFail, g, GenFailure)

\* "Analyze Email Patterns"
DoChatAnalyze ==
    \E f \in Fetches, g \in GenOutcomes, encFail \in 0..1 :
        \E g2 \in SuggestReplies(encFail) :
            ChatRun(f.box, f.api, "analyze", <<>>, 0, 0, "", encFail, g, g2)

\* the caller of the page authenticating the manager it hands to the page
DoConnect ==
    \E o \in {"build_failed", "ok"} :
        \E r \in {Authenticate(gmail_manager, o)} :
            /\ gmail_manager' = r.mgr
            /\ ui' = [NoRun EXCEPT !.name = "authenticate", !.arg = o]
            /\ UNCHANGED <<emails, faiss_index, email_vectors, lastBuild, call, session_state>>

NextChat ==
    \/ DoConnect
    \/ DoChatRender
    \/ DoChatLoad
    \/ DoChatClear
    \/ DoChatDelete
    \/ DoChatAsk
    \/ DoChatAnalyze

SpecChat == Init /\ [][NextChat]_vars

(***************************************************************************)
(* The analytics page (render_analytics_tab of ui_components.py), button    *)
(* "Analyze Recent Emails": it categorizes each recent message whose        *)
(* details it obtains and counts the categories it reads in the responses.  *)
(* category_counts is a dict: a sequence of pairs of a key and its count,   *)
(* in the order in which the keys were first set.  The table of senders,    *)
(* which the page draws from the list senders alone, is left out.           *)
(***************************************************************************)
CategoryLabel == "Category:"

\* category_counts[category] = category_counts.get(category, 0) + 1
Increment(counts, category) ==
    IF \E j \in 1..Len(counts) : counts[j][1] = category
    THEN [j \in 1..Len(counts) |->
              IF counts[j][1] = category THEN <<category, counts[j][2] + 1>> ELSE counts[j]]
    ELSE Append(counts, <<category, 1>>)

\* cat.split("Category:")[1].split("\n")[0].strip(), where parts is
\* cat.split("Category:")
CategoryOf(parts) == Strip(Split(parts[2], "\n")[1])

\* lines 581-586 without the test of line 584: the element [1] of a split
\* that has one element raises IndexError
RECURSIVE CountCategories_NoGuard(_, _)
CountCategories_NoGuard(categories, counts) ==
    IF categories = <<>> THEN [value |-> counts, raised |-> FALSE]
    ELSE LET parts == Split(Head(categories), CategoryLabel)
         IN  IF Len(parts) < 2 THEN [value |-> counts, raised |-> TRUE]
             ELSE CountCategories_NoGuard(Tail(categories),
                                          Increment(counts, CategoryOf(parts)))

\* lines 581-586 reading the category after the last label of the response
RECURSIVE CountCategories_LastLabel(_, _)
CountCategories_LastLabel(categories, counts) ==
    IF categories = <<>> THEN [value |-> counts, raised |-> FALSE]
    ELSE LET parts == Split(Head(categories), CategoryLabel)
         IN  IF Contains(Head(categories), CategoryLabel)
             THEN CountCategories_LastLabel(
                      Tail(categories),
                      Increment(counts, Strip(Split(parts[Len(parts)], "\n")[1])))
             ELSE CountCategories_LastLabel(Tail(categories), counts)

\* lines 581-586: the counts after the responses categories, from counts
RECURSIVE CountCategories(_, _)
CountCategories(categories, counts) ==
    IF categories = <<>> THEN [value |-> counts, raised |-> FALSE]
    ELSE IF Contains(Head(categories), CategoryLabel)
    THEN CountCategories(Tail(categories),
                         Increment(counts, CategoryOf(Split(Head(categories), CategoryLabel))))
    ELSE CountCategories(Tail(categories), counts)

\* lines 569-577: the responses and the senders for the messages refs; gs are
\* the outcomes of the backend, one for each message, the request for details
\* number fail fails and n is the number of the next request
RECURSIVE Categorize(_, _, _, _, _, _)
Categorize(mgr, box, refs, gs, fail, n) ==
    IF refs = <<>> THEN [categories |-> <<>>, senders |-> <<>>]
    ELSE LET d == GetMessageDetails(mgr, box, Head(refs).id,
                                    IF n = fail THEN "HttpError" ELSE "ok")
             content == ExtractEmailContent(d.value.item)
             rest == Categorize(mgr, box, Tail(refs), Tail(gs), fail, n + 1)
         IN  IF Truthy(d.value)
             THEN [categories |->
                       <<ResponseString(EmailTask("categorize_email", content, Head(gs)).text)>>
                           \o rest.categories,
                   senders |-> <<content.sender>> \o rest.senders]
             ELSE rest

\* lines 561-586, the button "Analyze Recent Emails"
AnalyzeRecentEmails(mgr, box, api, gs, fail) ==
    LET m == GetMessages(mgr, "", 30, box, api)
        c == Categorize(mgr, box, m.value.item, gs, fail, 1)
        counted == CountCategories(c.categories, <<>>)
    IN  IF Truthy(m.value)
        THEN [value |-> PyDict(counted.value), raised |-> counted.raised,
              requests |-> m.requests, categories |-> c.categories, senders |-> c.senders]
        ELSE [value |-> PyNone, raised |-> FALSE, requests |-> m.requests,
              categories |-> <<>>, senders |-> <<>>]

\* What the backend answers to the prompt of categorize_email.
CategoryTexts ==
    { <<"Category:", " ", "Work/Professional", "\n", "Confidence:", " ", "90%", "\n",
        "Explanation:", " ", "business context">>,
      <<"Sure!", "\n", "Category:", " ", "Personal", " ", "\n", "Confidence:", " ", "60%">>,
      <<"Category:", "\n", "Personal">>,
      <<"Category:", " ", "Travel", "\n", "Category:", " ", "Other">>,
      <<"Category:", " ", "Work/Professional">>,
      <<" ", "Category:", "Spam/Junk", "\t", "\n">>,
      <<"Category:", " ", "Other", "\r", "\n", "Confidence:", " ", "50%">>,
      <<"category:", " ", "Personal">>,
      <<"This email is about work.">> }

\* a run of the analytics page in which "Analyze Recent Emails" is pressed
DoAnalyzeRecentEmails ==
    \E box \in Mailboxes, api \in {"ok", "HttpError"} :
        \E gs \in [1..Len(box) -> {[ok |-> TRUE, text |-> t, msg |-> <<>>] : t \in CategoryTexts}
                                       \cup {GenFailure}],
           fail \in 0..Len(box) :
            \E r \in {AnalyzeRecentEmails(gmail_manager, box, api, gs, fail)} :
                /\ ui' = [NoRun EXCEPT !.value = r.value, !.name = "analyze_recent_emails",
                                       !.raised = r.raised, !.requests = r.requests,
                                       !.categories = r.categories, !.senders = r.senders]
                /\ UNCHANGED <<emails, faiss_index, email_vectors, lastBuild, call,
                               session_state, gmail_manager>>

NextAnalytics ==
    \/ DoConnect
    \/ DoAnalyzeRecentEmails

SpecAnalytics == Init /\ [][NextAnalytics]_vars

(***************************************************************************)
(* The application (main of app.py).  One run of main is one action.  The   *)
(* events are those of the sidebar, "connect" for the button "Connect       *)
(* Gmail" of main, shown while the session is not authenticated, and        *)
(* "disconnect" for the button "Disconnect Gmail" of the sidebar, whose     *)
(* callback runs before the run.  When the tabs are rendered the pages run; *)
(* the chat page stands for them.                                           *)
(***************************************************************************)
\* main() in the session s for the event ev; old is the manager of the run
\* before, o the way authenticate ends, box and api what get_messages finds
Main(s, old, ev, o, box, api) ==
    LET s0 == IF ev.kind = "disconnect" THEN [s EXCEPT !.gmail_authenticated = FALSE] ELSE s
        s1 == ShowAiSettings(s0, ev)
        r == Authenticate(NewGmailManager, o)
        p == RenderChatbotTab(s1, NewGmailManager, InitRetriever, box, api, "", <<>>, 0, 0,
                              "", 0, GenFailure, GenFailure)
    IN  IF ev.kind = "provider" \/ ~HasProvider(s1, GetAiSettings(s1).provider)
        THEN [core |-> Untouched(InitRetriever), raised |-> FALSE, mgr |-> old,
              calls |-> <<>>, tabs |-> FALSE, session |-> s1]
        ELSE IF ~s1.gmail_authenticated
        THEN IF ev.kind = "connect"
             THEN [core |-> Untouched(InitRetriever), raised |-> FALSE, mgr |-> r.mgr,
                   calls |-> <<>>, tabs |-> FALSE,
                   session |-> [s1 EXCEPT !.gmail_authenticated = r.value]]
             ELSE [core |-> Untouched(InitRetriever), raised |-> FALSE,
                   mgr |-> NewGmailManager, calls |-> <<>>, tabs |-> FALSE, session |-> s1]
        ELSE [core |-> p.core, raised |-> p.raised, mgr |-> NewGmailManager,
              calls |-> p.calls, tabs |-> TRUE, session |-> p.session]

\* the events that a run in the session s can be for
OfferedInApp(s, ev) ==
    CASE ev.kind = "connect" ->
             ~s.gmail_authenticated /\ HasProvider(s, GetAiSettings(s).provider)
      [] ev.kind = "disconnect" -> s.gmail_authenticated
      [] OTHER -> Offered(s, ev)

\* one run of main
DoRun ==
    \E ev \in {e \in SidebarEvents \cup {[kind |-> "connect", value |-> ""],
                                        [kind |-> "disconnect", value |-> ""]} :
                   OfferedInApp(session_state, e)},
       f \in Fetches :
        \E o \in (IF ev.kind = "connect" THEN AuthOutcomes ELSE {"ok"}) :
            \E r \in {Main(session_state, gmail_manager, ev, o, f.box, f.api)} :
                /\ FinishCore(r.core)
                /\ session_state' = r.session
                /\ gmail_manager' = r.mgr
                /\ ui' = [NoRun EXCEPT !.name = ev.kind,
                                       !.arg = IF ev.kind = "connect" THEN o ELSE "",
                                       !.raised = r.raised, !.calls = r.calls,
                                       !.tabs = r.tabs]

SpecApp == Init /\ [][DoRun]_vars

(***************************************************************************)
(* The settings and the generation: the sidebar of a run, and a run in      *)
(* which a page calls an orchestrator of the EmailAI that main made from    *)
(* the provider of get_ai_settings (lines 92-98 and 123-124 of app.py).     *)
(***************************************************************************)
\* a run of main for an event of the sidebar
DoSidebar ==
    \E ev \in {e \in SidebarEvents : Offered(session_state, e)} :
        /\ session_state' = ShowAiSettings(session_state, ev)
        /\ ui' = [NoRun EXCEPT !.name = "sidebar", !.arg = ev.kind]
        /\ UNCHANGED <<emails, faiss_index, email_vectors, lastBuild, call, gmail_manager>>

\* a run of main in which a page calls email_ai.<task>(email) or
\* email_ai.generate_search_query(q)
DoGenerate ==
    \E s1 \in {ShowAiSettings(session_state, [kind |-> "none", value |-> ""])} :
        /\ HasProvider(s1, GetAiSettings(s1).provider)
        /\ \E g \in GenOutcomes :
               \E c \in {EmailTask(task, Email1, g) : task \in {"summarize_email", "categorize_email"}}
                            \cup {GenerateSearchQuery(q, g) : q \in Queries} :
                   /\ FinishCore([st |-> Retriever, builds |-> <<>>, call |-> c])
                   /\ session_state' = s1
                   /\ ui' = [NoRun EXCEPT !.name = "generate",
                                          !.calls = <<c.name>>,
                                          !.backend =
                                              IF c.prompts = <<>> THEN <<>>
                                              ELSE AdapterRequests(GetAiSettings(s1).provider,
                                                                   GenerationKwargs)]
                   /\ UNCHANGED gmail_manager

NextSettings ==
    \/ DoSidebar
    \/ DoGenerate

SpecSettings == Init /\ [][NextSettings]_vars

(***************************************************************************)
(* Properties.                                                              *)
(***************************************************************************)
\* Ends of calls that return a list of records found by the index.
SearchReturned ==
    /\ call.name \in {"search_emails_faiss", "search_emails_by_content"}
    /\ call.outcome = "return"

QueryVec == Embed(QueryText(call.query))

\* the distance from the query of the call to the record at place a of its result
ResultDist(a) == L2Sqr(Embed(IndexText(call.list[a])), QueryVec)

\* the place in the indexed emails of the record at place a of the result
ResultPos(a) == CHOOSE i \in 1..Len(emails) : emails[i] = call.list[a]

\* a text that is the empty string: no line, or one line with nothing on it
IsEmptyString(t) == t = <<>> \/ t = <<[kind |-> "empty"]>>

\* the number of lines of one rendered email (lines 57-63)
LinesPerPart == 7

\* C1: after a successful build_faiss_index(E), a search that asks for k
\* records returns exactly min(k, len(E)) records.
C1_ExactCount ==
    (SearchReturned /\ lastBuild.status = "ok")
        => Len(call.list) = Min(call.k, Len(lastBuild.arg))

\* C2: on every call path, each neighbour count handed to the index is
\* min(requested k, number of indexed emails).
C2_ClampedK ==
    \A i \in 1..Len(call.knn) : call.knn[i] = Min(call.k, Len(faiss_index.vecs))

\* C3: search_emails_faiss returns [] without raising and without calling the
\* encoder when no build was ever made on the instance, and when the most
\* recent build was given an empty sequence.
C3_EmptySearch ==
    (/\ call.name = "search_emails_faiss"
     /\ \/ lastBuild.status = "never"
        \/ lastBuild.arg = <<>>)
        => /\ call.outcome = "return"
           /\ call.list = <<>>
           /\ call.encCalls = 0

C3_Witness ==
    /\ call.name = "search_emails_faiss"
    /\ call.k > 0
    /\ lastBuild.status = "ok"
    /\ lastBuild.arg = <<>>

\* C4: after a successful build the index holds exactly one vector per email
\* of that build, the vector at position i is the one of emails[i] of that
\* build, the retained emails are those of that build, and nothing else is
\* in the index.
C4_IndexIsLastBuild ==
    lastBuild.status = "ok"
        => /\ emails = lastBuild.arg
           /\ Len(faiss_index.vecs) = Len(lastBuild.arg)
           /\ \A i \in 1..Len(lastBuild.arg) :
                  faiss_index.vecs[i] = Embed(IndexText(lastBuild.arg[i]))

C4_Witness ==
    /\ call.name = "build_faiss_index"
    /\ lastBuild.status = "ok"
    /\ ~lastBuild.again
    /\ Len(lastBuild.arg) >= 2

\* C5 (as stated): after a build from an empty sequence the retriever is in
\* a state that differs from the state of an instance never built.
C5_EmptyDistinctFromUnset ==
    (lastBuild.status = "ok" /\ lastBuild.arg = <<>>) => Retriever # InitRetriever

\* C5 (amended): after a build from an empty sequence the retriever is in
\* the state of a fresh instance: no index, no vectors, no emails.
C5_EmptyBuildIsUnset ==
    (lastBuild.status = "ok" /\ lastBuild.arg = <<>>) => Retriever = InitRetriever

C5_Witness ==
    /\ call.name = "build_faiss_index"
    /\ call.outcome = "return"
    /\ call.arg = <<>>

\* the retriever states an instance can be in before a build: fresh, or
\* built on any list
PriorRetrievers ==
    {InitRetriever} \cup {BuildFaissIndex(InitRetriever, es, TRUE).st : es \in EmailLists}

\* C6: a search made after build_faiss_index(E); build_faiss_index(E) returns
\* the ordered result that the same search returns after one
\* build_faiss_index(E), whatever the instance held before.
C6_BuildIdempotent ==
    (call.name = "search_emails_faiss" /\ call.outcome = "return" /\ lastBuild.again)
        => \A st0 \in PriorRetrievers :
               call.list = SearchEmailsFaiss(BuildFaissIndex(st0, lastBuild.arg, TRUE).st,
                                             call.query, call.k, TRUE, FALSE).list

C6_Witness ==
    /\ call.name = "search_emails_faiss"
    /\ call.outcome = "return"
    /\ lastBuild.again
    /\ Len(call.list) >= 2

\* C7: the records a search returns are in non-decreasing distance from the
\* query, and of two records at the same distance the one indexed first
\* comes first.
C7_NearestFirst ==
    (SearchReturned /\ lastBuild.status = "ok")
        => \A a, b \in 1..Len(call.list) :
               a < b => /\ ResultDist(a) <= ResultDist(b)
                        /\ ResultDist(a) = ResultDist(b) => ResultPos(a) <= ResultPos(b)

\* C8: create_email_context gives the fixed sentence for an empty list, and
\* never the empty string.
C8_ContextNeverEmpty ==
    call.name = "create_email_context"
        => /\ call.arg = <<>> => call.text = Literal("No emails available for context.")
           /\ ~IsEmptyString(call.text)

C8_Witness ==
    /\ call.name = "create_email_context"
    /\ call.arg = <<>>
    /\ call.text # <<>>

\* C9: for N >= 1 emails create_email_context renders N blocks in input
\* order, block i numbered i and carrying the subject, sender, date and whole
\* body of email i (the default text for a key the email lacks), and ending
\* with a delimiter line.
C9_ContextBlocks ==
    (call.name = "create_email_context" /\ call.arg # <<>>)
        => /\ Len(call.text) = LinesPerPart * Len(call.arg)
           /\ \A i \in 1..Len(call.arg) :
                  LET e == call.arg[i]
                      at == LinesPerPart * (i - 1)
                  IN  /\ call.text[at + 2] = [kind |-> "Email", number |-> i]
                      /\ call.text[at + 3] =
                             [kind |-> "- Subject: ",
                              value |-> IF "subject" \in DOMAIN e THEN e.subject
                                        ELSE "No Subject"]
                      /\ call.text[at + 4] =
                             [kind |-> "- From: ",
                              value |-> IF "sender" \in DOMAIN e THEN e.sender
                                        ELSE "Unknown Sender"]
                      /\ call.text[at + 5] =
                             [kind |-> "- Date: ",
                              value |-> IF "date" \in DOMAIN e THEN e.date
                                        ELSE "Unknown Date"]
                      /\ call.text[at + 6] =
                             [kind |-> "- Content: ",
                              body |-> IF "body" \in DOMAIN e THEN e.body
                                       ELSE <<"No content">>]
                      /\ call.text[at + 7] = [kind |-> "---"]

C9_Witness ==
    /\ call.name = "create_email_context"
    /\ Len(call.arg) >= 2
    /\ call.arg[1] # call.arg[2]
    /\ "subject" \notin DOMAIN call.arg[1]
    /\ "body" \in DOMAIN call.arg[2]
    /\ Len(call.arg[2].body) > 2

\* C10: answer_question with no emails returns the fixed guidance text and
\* calls neither the generation backend nor the encoder.
C10_AnswerNoEmails ==
    (call.name = "answer_question" /\ call.arg = <<>>)
        => /\ call.outcome = "return"
           /\ call.text = Literal("No emails are available to answer your question. Please select some emails first.")
           /\ call.genCalls = 0
           /\ call.prompts = <<>>
           /\ call.encCalls = 0

C10_Witness ==
    /\ call.name = "answer_question"
    /\ call.arg = <<>>
    /\ ~faiss_index.isNone

\* the context of the prompt of the call
PromptContext == call.prompts[1].context

\* the lines of block a of a context
ContextBlock(context, a) ==
    SubSeq(context, LinesPerPart * (a - 1) + 1, LinesPerPart * a)

\* the distance from the query of the call to the email e
EmailDist(e) == L2Sqr(Embed(IndexText(e)), QueryVec)

\* C11: answer_question called with N >= 1 emails indexes exactly those N
\* emails, retrieves the min(5, N) nearest of them, and the context of its
\* one generation prompt is exactly min(5, N) email blocks, nearest first,
\* each the block of a different email of the given ones.
C11_AnswerContext ==
    (call.name = "answer_question" /\ call.arg # <<>> /\ call.outcome = "return")
        => LET top == Min(5, Len(call.arg))
           IN  /\ emails = call.arg
               /\ Len(faiss_index.vecs) = Len(call.arg)
               /\ \A i \in 1..Len(call.arg) :
                      faiss_index.vecs[i] = Embed(IndexText(call.arg[i]))
               /\ Len(call.list) = top
               /\ \A a \in 1..top : \E i \in 1..Len(call.arg) : call.arg[i] = call.list[a]
               /\ \A a, b \in 1..top : a < b => /\ call.list[a] # call.list[b]
                                                /\ ResultDist(a) <= ResultDist(b)
               /\ \A i \in 1..Len(call.arg) :
                      (\A a \in 1..top : call.list[a] # call.arg[i])
                          => EmailDist(call.arg[i]) >= ResultDist(top)
               /\ call.genCalls = 1
               /\ Len(call.prompts) = 1
               /\ Len(PromptContext) = LinesPerPart * top
               /\ \A a \in 1..top :
                      ContextBlock(PromptContext, a) = ContextPart(a, call.list[a])

C11_Witness ==
    /\ call.name = "answer_question"
    /\ call.outcome = "return"
    /\ Len(call.arg) > 5
    /\ Len(call.list) = 5
    /\ call.list # Take(call.arg, 5)
    /\ ResultDist(1) < ResultDist(5)

\* C12: whatever the emails and whatever the backend did (any text, or a
\* failure), a suggest_questions call that returns gives a list of at least
\* 1 and at most 5 items, each holding a question mark.
C12_QuestionCount ==
    (call.name = "suggest_questions" /\ call.outcome = "return")
        => /\ Len(call.list) >= 1
           /\ Len(call.list) <= 5
           /\ \A i \in 1..Len(call.list) : \E j \in 1..Len(call.list[i]) : call.list[i][j] = "?"

C12_Witness ==
    /\ call.name = "suggest_questions"
    /\ call.genCalls = 1
    /\ call.replies[1].ok
    /\ \E i \in 1..Len(call.replies[1].text) :
           /\ call.replies[1].text[i] = "Here are some questions:"
           /\ i < Len(call.replies[1].text)
    /\ Len(call.list) = 1

\* C13: suggest_questions called with zero emails returns the first fixed
\* list of 5 generic questions, calls neither the generation backend nor the
\* encoder, and leaves the retriever's emails, index and vectors as they were.
C13_SuggestNoEmails ==
    [][(call'.name = "suggest_questions" /\ call'.arg = <<>>)
          => /\ call'.outcome = "return"
             /\ call'.list = << <<"What are the main topics in my recent emails", "?">>,
                                <<"Who are the most frequent senders", "?">>,
                                <<"Are there any urgent emails I should prioritize", "?">>,
                                <<"What meetings or events are mentioned", "?">>,
                                <<"Are there any action items I need to follow up on", "?">> >>
             /\ call'.genCalls = 0
             /\ call'.prompts = <<>>
             /\ call'.encCalls = 0
             /\ UNCHANGED <<emails, faiss_index, email_vectors>>]_vars

C13_Witness ==
    /\ call.name = "suggest_questions"
    /\ call.arg = <<>>
    /\ ~faiss_index.isNone
    /\ Len(emails) >= 2

\* the lines of the text that _generate_response gave to the call
GeneratedLines == Split(ResponseString(call.text), "\n")

\* the places of the lines that hold a question mark
MarkedLines == {i \in 1..Len(GeneratedLines) : Contains(GeneratedLines[i], "?")}

\* the place of the j-th line that holds a question mark
NthMarked(j) ==
    CHOOSE i \in MarkedLines : Cardinality({h \in MarkedLines : h <= i}) = j

C15_AnalyzeAll ==
    call.name = "analyze_email_patterns"
        => /\ call.outcome = "return"
           /\ call.encCalls = 0
           /\ call.knn = <<>>
           /\ call.arg = <<>>
              => /\ call.text = Literal("No emails selected for analysis.")
                 /\ call.genCalls = 0
                 /\ call.prompts = <<>>
           /\ call.arg # <<>>
              => /\ call.genCalls = 1
                 /\ Len(call.prompts) = 1
                 /\ Len(PromptContext) = LinesPerPart * Len(call.arg)
                 /\ \A i \in 1..Len(call.arg) :
                        ContextBlock(PromptContext, i) = ContextPart(i, call.arg[i])

C15_Witness ==
    /\ call.name = "analyze_email_patterns"
    /\ Len(call.arg) > 5
    /\ call.genCalls = 1
    /\ ~faiss_index.isNone
    /\ emails # call.arg

\* C16: search_emails_by_content never calls the generation backend; for
\* zero emails it returns []; for N >= 1 emails it indexes exactly the given
\* emails and returns at most 10 records, nearest first, each one of the
\* given emails.
C16_ContentSearch ==
    (call.name = "search_emails_by_content" /\ call.outcome = "return")
        => /\ call.genCalls = 0
           /\ call.prompts = <<>>
           /\ call.arg = <<>> => call.list = <<>>
           /\ call.arg # <<>>
              => /\ emails = call.arg
                 /\ Len(faiss_index.vecs) = Len(call.arg)
                 /\ Len(call.list) <= 10
                 /\ \A a \in 1..Len(call.list) :
                        \E i \in 1..Len(call.arg) : call.arg[i] = call.list[a]
                 /\ \A a, b \in 1..Len(call.list) :
                        a < b => ResultDist(a) <= ResultDist(b)

Orchestrators ==
    {"answer_question", "suggest_questions", "analyze_email_patterns",
     "summarize_email", "generate_smart_reply", "categorize_email",
     "extract_action_items", "analyze_sentiment", "generate_search_query"}

\* C17: every orchestrator call calls the generation backend at most once;
\* when that call fails the orchestrator takes its failed outcome, the
\* apology text, without a second generation call.
C17_OneGeneration ==
    call.name \in Orchestrators
        => /\ call.genCalls <= 1
           /\ Len(call.replies) = call.genCalls
           /\ Len(call.prompts) = call.genCalls
           /\ \A i \in 1..Len(call.replies) :
                  ~call.replies[i].ok
                      => /\ Len(call.replies) = 1
                         /\ call.outcome = "return"
                         /\ Len(call.text) = 1
                         /\ call.text[1].kind = "apology"

C17_Witness ==
    /\ call.name = "categorize_email"
    /\ call.genCalls = 1
    /\ ~call.replies[1].ok

\* C18: when the generation backend raises, each orchestrator that returns
\* a text returns normally a string that starts with "Sorry, I couldn't
\* generate a response" and ends with the backend's error message; the
\* exception does not reach the caller.
C18_Apology ==
    (/\ call.name \in Orchestrators \ {"suggest_questions"}
     /\ \E i \in 1..Len(call.replies) : ~call.replies[i].ok)
        => /\ call.outcome = "return"
           /\ call.exc = ""
           /\ LET str == ResponseString(call.text)
                  msg == call.replies[1].msg
              IN  /\ str[1] = "Sorry, I couldn't generate a response"
                  /\ Len(str) > Len(msg)
                  /\ msg # <<>>
                  /\ SubSeq(str, Len(str) - Len(msg) + 1, Len(str)) = msg

C18_Witness ==
    /\ call.name = "answer_question"
    /\ call.genCalls = 1
    /\ ~call.replies[1].ok
    /\ call.text # <<>>

\* C19: a failure of the encoder in build_faiss_index or search_emails_faiss
\* reaches the caller, also through answer_question, suggest_questions and
\* search_emails_by_content: the call raises the encoder's error, returns no
\* list and no text, calls the encoder no further time and the generation
\* backend not at all.
C19_EncoderFailure ==
    call.encFailed # 0
        => /\ call.outcome = "raise"
           /\ call.exc = "EncoderError"
           /\ call.list = <<>>
           /\ call.text = <<>>
           /\ call.encCalls = call.encFailed
           /\ call.genCalls = 0
           /\ call.prompts = <<>>

C19_Witness ==
    /\ call.name = "answer_question"
    /\ call.encFailed = 2
    /\ lastBuild.status = "ok"

\* C20: no prompt that answer_question, suggest_questions or
\* analyze_email_patterns hands to the generation backend has the sentence
\* of the empty context as its context; answer_question with N >= 1 emails
\* never retrieves an empty list.
C20_NoEmptyContext ==
    call.name \in {"answer_question", "suggest_questions", "analyze_email_patterns"}
        => /\ \A i \in 1..Len(call.prompts) :
                  call.prompts[i].context # Literal("No emails available for context.")
           /\ (call.name = "answer_question" /\ call.arg # <<>> /\ call.outcome = "return")
                  => call.list # <<>>

C20_Witness ==
    /\ call.name = "answer_question"
    /\ call.genCalls = 1
    /\ Len(call.arg) = 1
    /\ Len(call.list) = 1
    /\ call.prompts[1].context # <<>>

\* C21: in answer_question and search_emails_by_content the index that is
\* searched was built, inside the same call, on the emails of that call:
\* whatever earlier calls left on the instance, the retained emails and the
\* indexed vectors are those of the call's argument and every record
\* retrieved is one of the call's emails.
C21_BuildBeforeSearch ==
    (/\ call.name \in {"answer_question", "search_emails_by_content"}
     /\ call.knn # <<>>)
        => /\ lastBuild.status = "ok"
           /\ lastBuild.arg = call.arg
           /\ emails = call.arg
           /\ Len(faiss_index.vecs) = Len(call.arg)
           /\ \A i \in 1..Len(call.arg) :
                  faiss_index.vecs[i] = Embed(IndexText(call.arg[i]))
           /\ \A a \in 1..Len(call.list) :
                  \E i \in 1..Len(call.arg) : call.arg[i] = call.list[a]

C21_Witness ==
    /\ call.name = "search_emails_by_content"
    /\ call.outcome = "return"
    /\ call.replaced
    /\ Len(call.arg) = 1
    /\ call.list # <<>>

\* C25: every record that a search returns is the email at a valid,
\* non-negative position of the last successful build, and no indexed email
\* comes twice in one result, also when more records are asked for than are
\* indexed.
C25_ValidPositions ==
    (SearchReturned /\ lastBuild.status = "ok")
        => /\ \A a \in 1..Len(call.labels) :
                  call.labels[a] >= 0 /\ call.labels[a] < Len(lastBuild.arg)
           /\ \A a, b \in 1..Len(call.list) : call.list[a] = call.list[b] => a = b

\* C26: when the encoder fails in build_faiss_index(E2) on an instance that
\* had indexed E1, the retained emails, the vectors and the index still
\* describe one and the same list of emails.
C26_BuildFailureAtomic ==
    (lastBuild.status = "failed" /\ ~faiss_index.isNone)
        => /\ Len(faiss_index.vecs) = Len(emails)
           /\ email_vectors.rows = faiss_index.vecs
           /\ \A i \in 1..Len(emails) : faiss_index.vecs[i] = Embed(IndexText(emails[i]))

\* The calls of C30, and the value each gives when it has nothing to give.
GmailReads == {"get_messages", "get_message_details", "send_reply"}

EmptyValue(name) == IF name = "get_messages" THEN PyList(<<>>) ELSE PyNone

\* C30: on a manager whose service is not initialized, get_messages returns
\* [], get_message_details None and send_reply None, without raising and
\* without a request to the Gmail API; when the request they make fails they
\* return the same empty value without raising; and none of them changes the
\* service or the credentials of the manager.
C30_EmptyOnNoServiceOrFailure ==
    [][ui'.name \in GmailReads
         => /\ ~ui'.raised
            /\ gmail_manager' = gmail_manager
            /\ gmail_manager.service = NoService
                 => ui'.value = EmptyValue(ui'.name) /\ ui'.requests = <<>>
            /\ (ui'.requests # <<>> /\ ui'.api # "ok")
                 => ui'.value = EmptyValue(ui'.name)]_vars

\* get_message_details on a manager that authenticate left without a service
\* although it obtained credentials
C30_Witness ==
    /\ ui.name = "get_message_details"
    /\ gmail_manager = [service |-> NoService, creds |-> "creds"]
    /\ ui.value = PyNone
    /\ ui.requests = <<>>

\* C24: the chat history is append-only: every step leaves it unchanged or
\* appends one pair of a question and an answer at its end.
C24_HistoryAppendOnly ==
    [][\/ session_state'.chat_history = session_state.chat_history
       \/ /\ Len(session_state'.chat_history) = Len(session_state.chat_history) + 1
          /\ SubSeq(session_state'.chat_history, 1, Len(session_state.chat_history))
                 = session_state.chat_history]_vars

\* C28: "Ask Question" with no email loaded calls no orchestrator and leaves
\* the history as it is; with emails loaded it calls answer_question once,
\* with the question typed and the loaded emails, and when that call returns
\* the history grows at its end by the pair of the question and the text
\* returned; the loaded emails stay as they are.
C28_AskQuestionEffect ==
    [][ui'.name = "ask"
         => /\ session_state'.selected_emails_for_chat = session_state.selected_emails_for_chat
            /\ session_state.selected_emails_for_chat = <<>>
                 => /\ ui'.calls = <<>>
                    /\ session_state'.chat_history = session_state.chat_history
            /\ session_state.selected_emails_for_chat # <<>>
                 => /\ ui'.calls = <<"answer_question">>
                    /\ call'.name = "answer_question"
                    /\ call'.query = ui'.arg
                    /\ call'.arg = session_state.selected_emails_for_chat
                    /\ call'.outcome = "return"
                         => session_state'.chat_history
                                = Append(session_state.chat_history, <<ui'.arg, call'.text>>)
                    /\ call'.outcome = "raise"
                         => session_state'.chat_history = session_state.chat_history]_vars

\* a second question answered with the apology of a failed generation
C28_Witness ==
    /\ ui.name = "ask"
    /\ ui.calls = <<"answer_question">>
    /\ Len(session_state.chat_history) = 2
    /\ session_state.chat_history[2][1] = ui.arg
    /\ session_state.chat_history[2][2] = call.text
    /\ call.text[1].kind = "apology"

\* The responses of the most recent run of the analytics page that contain
\* the label, and the text of a response between its first label and the
\* next line break, without the whitespace around it.
Labelled == {n \in 1..Len(ui.categories) : Contains(ui.categories[n], CategoryLabel)}

FirstLabel(cat) == CHOOSE p \in 1..Len(cat) :
                       cat[p] = CategoryLabel /\ \A q \in 1..(p - 1) : cat[q] # CategoryLabel

LineEnd(cat, p) == IF \E q \in (p + 1)..Len(cat) : cat[q] = "\n"
                   THEN CHOOSE q \in (p + 1)..Len(cat) :
                            cat[q] = "\n" /\ \A o \in (p + 1)..(q - 1) : cat[o] # "\n"
                   ELSE Len(cat) + 1

CategoryText(cat) == Strip(SubSeq(cat, FirstLabel(cat) + 1, LineEnd(cat, FirstLabel(cat)) - 1))

RECURSIVE SumCounts(_)
SumCounts(counts) == IF counts = <<>> THEN 0 ELSE Head(counts)[2] + SumCounts(Tail(counts))

AnalyticsDone == ui.name = "analyze_recent_emails" /\ ui.value # PyNone

C23_UnlabelledUncounted ==
    (ui.name = "analyze_recent_emails")
        => /\ ~ui.raised
           /\ AnalyticsDone
                => /\ SumCounts(ui.value.item) + Cardinality((1..Len(ui.categories)) \ Labelled)
                          = Len(ui.categories)
                   /\ Labelled = {} => ui.value.item = <<>>

\* an apology and a labelled response in one run
C23_Witness ==
    /\ AnalyticsDone
    /\ Len(ui.categories) = 2
    /\ ui.categories[1] = ApologyPrefix \o GenFailure.msg
    /\ ui.value.item = << << <<"Personal">>, 1 >> >>

\* C27: the tabs are rendered only in runs in which gmail_authenticated is
\* true, and the manager handed to them has an initialized service.
C27_TabsHaveService ==
    ui.tabs => session_state.gmail_authenticated /\ gmail_manager.service # NoService

\* C29: the model, the temperature and max_tokens of every request made to
\* the provider for an orchestrator call are those of get_ai_settings.
C29_SettingsUsed ==
    (ui.name = "generate")
        => \A n \in 1..Len(ui.backend) :
               /\ DOMAIN ui.backend[n] = {"model", "temperature", "max_tokens"}
               /\ ui.backend[n].model = GetAiSettings(session_state).model
               /\ ui.backend[n].temperature = GetAiSettings(session_state).temperature
               /\ ui.backend[n].max_tokens = GetAiSettings(session_state).max_tokens

====
